---------------------------- MODULE Spec2Model ----------------------------
(***************************************************************************)
(* Bankable-AI: the analysis orchestration pipeline.                       *)
(*                                                                         *)
(*   GlobalContextService  src/src/core/global-context.ts (lines 1-294)    *)
(*   MessageBus            src/unnamed/part_002                            *)
(*   AgentOrchestrator     src/src/core/orchestrator.ts                    *)
(*   BaseAgent             src/src/agents/base-agent.ts                    *)
(*   checkObviousCases     src/src/synthesis/risk-synthesizer.ts (407-853) *)
(*                                                                         *)
(* Three specifications share the variables:                               *)
(*   SpecStore  one sequential client driving the store's public methods,  *)
(*              each external-cache call succeeding or failing;            *)
(*   Spec       one analyze() call on a store a client has prepared;       *)
(*   SpecBus    clients driving the bus's subscribe / send methods.        *)
(* Every async method is cut at its awaits: one action per synchronous     *)
(* stretch of code.                                                        *)
(***************************************************************************)
EXTENDS Integers, Sequences, FiniteSets, TLC

(* ------------------------------ bounds -------------------------------- *)
NumAgents == 2
MaxSessions == 2
MaxDocs == 1
MaxInsights == 2
MaxContradictions == 1
MaxStoreInsights == 2
MaxClientCalls == 3
MaxSubscriptions == 3
MaxMessages == 2
MaxRequests == 2
MaxDeliveries == 3
MaxFilterDocs == 2
MaxProduced == 2
MaxCalls == 2
MaxStoreRequests == 1

(* ------------------------- program constants -------------------------- *)
MaxAttempts == 3
BroadcastThreshold == 20

(* An optional number is the empty set or a singleton.                     *)
Undef == {}
Num(v) == {v}
Val(x) == CHOOSE v \in x : TRUE

AgentIds == <<"counter", "lawyer", "forecaster">>
Agents == {AgentIds[i] : i \in 1..(IF NumAgents < 3 THEN NumAgents ELSE 3)}
SessionIds == 1..MaxSessions

(* Who can have a store call in flight: a task's persistence loop, the     *)
(* orchestrator itself, or the outside client.                             *)
Callers == Agents \cup {"orchestrator", "client"}

(* ------------------------------ evidence ------------------------------ *)
(* One period of extracted financial data; a missing field is Undef.  The  *)
(* value under a year key is unknown to the type: NullYear is a null there. *)
YearRec(ni, rev, eq, ta, tl) ==
    [isNull |-> FALSE, netIncome |-> ni, revenue |-> rev, equity |-> eq,
     totalAssets |-> ta, totalLiabilities |-> tl]
NoFields == YearRec(Undef, Undef, Undef, Undef, Undef)
NullYear == [NoFields EXCEPT !.isNull = TRUE]

(* doc.data: null, or an object with year keys (ascending) and/or flat     *)
(* fields.  {} is isNull = FALSE, years = <<>>, flat = NoFields.           *)
DocData(isNull, years, flat) == [isNull |-> isNull, years |-> years, flat |-> flat]

(* parsedAt is a Date in memory and an ISO string after JSON.stringify.    *)
Doc(type, data) == [type |-> type, data |-> data, parsedAt |-> "Date"]

DocPLNeg == Doc("profit_and_loss",
                DocData(FALSE, << YearRec(Num(-5), Num(10), Undef, Undef, Undef),
                                  YearRec(Num(-3), Num(12), Undef, Undef, Undef),
                                  YearRec(Num(-1), Num(15), Undef, Undef, Undef) >>, NoFields))
DocPLPos == Doc("profit_and_loss",
                DocData(FALSE, << YearRec(Num(4), Num(20), Undef, Undef, Undef) >>, NoFields))
DocPLZeroRev == Doc("profit_and_loss",
                DocData(FALSE, <<>>, YearRec(Num(2), Num(0), Undef, Undef, Undef)))
DocBSNegEq == Doc("balance_sheet",
                DocData(FALSE, << YearRec(Undef, Undef, Undef, Num(5), Num(9)) >>, NoFields))
DocEmpty == Doc("other", DocData(FALSE, <<>>, NoFields))
DocPLNegZeroRev == Doc("profit_and_loss",
                DocData(FALSE, <<>>, YearRec(Num(-2), Num(0), Undef, Undef, Undef)))
DocPLNullYear == Doc("profit_and_loss", DocData(FALSE, << NullYear >>, NoFields))
DocSet == {DocPLNeg, DocPLPos, DocPLZeroRev, DocBSNegEq, DocEmpty}

(* apiSnapshots.stripe / .plaid: absent, or a snapshot.                    *)
NoStripe == [present |-> FALSE, mrr |-> 0, customerCount |-> 0]
StripeIdle == [present |-> TRUE, mrr |-> 0, customerCount |-> 0]
StripeLive == [present |-> TRUE, mrr |-> 5, customerCount |-> 2]
NoPlaid == [present |-> FALSE, accounts |-> 0, transactions |-> FALSE]
PlaidLive == [present |-> TRUE, accounts |-> 1, transactions |-> TRUE]

(* An insight: who produced it, its position in that task's output, its    *)
(* signed impact, and its timestamp (a Date until serialized).             *)
Insight(a, n, impact) == [agentId |-> a, n |-> n, impact |-> impact, timestamp |-> "Date"]
InsufficientImpact == 0

(* A RiskFactor: its score and its weight in hundredths (0.25 is 25).  Its  *)
(* name, components and explanation are left out, so that two maps of the  *)
(* model are equal whenever the two maps of the program are.               *)
Factor(score, weight) == [score |-> score, weight |-> weight]

(* createEmptyRiskFactors: four factors scoring 0, no components.          *)
EmptyRiskFactors == [kind |-> "empty", insights |-> <<>>]
NoInsights == [a \in Agents |-> <<>>]

(* this.context: sessionId 0 stands for null.                              *)
NewContext(sid) ==
    [sessionId |-> sid, startedAt |-> "Date", documents |-> <<>>,
     stripe |-> NoStripe, plaid |-> NoPlaid, agentInsights |-> NoInsights,
     riskFactors |-> EmptyRiskFactors, contradictions |-> 0]

(* ------------------- JSON.stringify / JSON.parse ----------------------- *)
(* JSON.stringify turns every Date into an ISO string.                     *)
Stringify(x) == [x EXCEPT !.parsedAt = "ISOString"]
StringifyInsight(i) == [i EXCEPT !.timestamp = "ISOString"]
StringifySeq(s) == [k \in 1..Len(s) |-> Stringify(s[k])]
StringifyInsights(s) == [k \in 1..Len(s) |-> StringifyInsight(s[k])]

Serialize(ctx) ==
    [ctx EXCEPT !.startedAt = "ISOString",
                !.documents = StringifySeq(ctx.documents),
                !.agentInsights = [a \in Agents |-> StringifyInsights(ctx.agentInsights[a])]]

(* loadSession revives startedAt only; the dates inside documents and      *)
(* insights stay strings.                                                  *)
ParseSession(data) == [data EXCEPT !.startedAt = "Date"]

(* What a caller can tell apart in a context once dates are set aside.     *)
Content(ctx) == Serialize(ctx)


(* ============================ the variables =========================== *)
VARIABLES
    (* GlobalContextService *)
    redis,          \* this.redis is a client (TRUE) or null (FALSE)
    redisStore,     \* the external cache: session id -> serialized session
    inMemoryStore,  \* this.inMemoryStore
    context,        \* this.context
    hasSubscriber,  \* this.subscribers holds a callback
    op,             \* per caller: the store call it has in flight
    nextSession,    \* the next fresh session id uuid() hands out
    written,        \* history: per session, the content last written to it
    clientCalls,    \* how many mutating calls the client has made
    (* MessageBus *)
    listeners,      \* the subscriptions, in registration order (task ids)
    messageLog,     \* this.messageLog
    inbox,          \* history: per task, the messages its handler was called with
    pendingRequests,\* this.pendingRequests: the correlation ids with an entry
    requests,       \* per request() call, by correlation id: its timer and promise
    (* AgentOrchestrator and its tasks *)
    orchPc,         \* where analyze() stands
    state,          \* this.state
    taskPc,         \* per task: where its map callback stands
    taskAttempt,    \* per task: retryCount of callLLMWithAudit while the call runs
    taskResult,     \* per task: what execute() returned
    taskIdx,        \* per task: insights of taskResult already handed to the store
    taskOut,        \* per task: what its map callback returned
    runInfo,        \* analyze()'s locals and what it handed back, see NoRun
    (* analyze() calls that overlap on one orchestrator *)
    calls,          \* per analyze() call: its position, its locals, its tasks
    stateOwner,     \* history: the call that created the object this.state refers to
    agentUnsubscribe, \* per agent object: this.unsubscribe holds a function
    (* a pure function called on its own *)
    funcArgs,       \* the arguments it is called with
    funcResult      \* what it returned, see NotCalled

storeVars == <<redis, redisStore, inMemoryStore, context, hasSubscriber, op,
               nextSession, written>>
reqVars == <<pendingRequests, requests>>
busVars == <<listeners, messageLog, inbox, reqVars>>
orchVars == <<orchPc, state, taskPc, taskAttempt, taskResult, taskIdx, taskOut, runInfo>>
funcVars == <<funcArgs, funcResult>>
callVars == <<calls, stateOwner, agentUnsubscribe>>
vars == <<storeVars, clientCalls, busVars, orchVars, funcVars, callVars>>

(* funcResult before the call and funcArgs where no function is called.    *)
NotCalled == [kind |-> "not_called"]
InitFunc == funcArgs = NotCalled /\ funcResult = NotCalled

NullContext == NewContext(0)
NoData == Serialize(NullContext)

IdleOp ==
    [name |-> "none", stage |-> "idle", sid |-> 0, val |-> NoData,
     cacheFailed |-> FALSE, pubFailed |-> FALSE, error |-> "none", result |-> 0]

MutatingOps == {"createSession", "addDocument", "setStripeSnapshot", "setPlaidSnapshot",
                "addAgentInsight", "addContradiction", "setRiskFactors"}

(* A variant of set() without the catch: a failed cache write is thrown.   *)
SetTargetNoFallback(hasRedis, ok) ==
    IF hasRedis /\ ok THEN "redis" ELSE IF hasRedis THEN "thrown" ELSE "memory"

(* ------------------------- get / set (private) ------------------------ *)
(* set(key, value): the cache when there is a client and its write         *)
(* succeeds, else the in-process map.  Nothing is thrown.                  *)
SetTarget(hasRedis, ok) ==
    IF hasRedis /\ ok THEN "redis" ELSE "memory"

(* get(key): the cache's answer (null when it has no such key) when there  *)
(* is a client and its read succeeds, else the in-process map's.           *)
GetSource(hasRedis, ok) ==
    IF hasRedis /\ ok THEN "redis" ELSE "memory"

GetValue(sid, hasRedis, ok) ==
    IF GetSource(hasRedis, ok) = "redis" THEN redisStore[sid] ELSE inMemoryStore[sid]

(* The stores after set() has settled on `target`; "thrown" leaves both.   *)
StoreWrite(target, sid, val) ==
    /\ redisStore' = IF target = "redis"
                     THEN [redisStore EXCEPT ![sid] = val] ELSE redisStore
    /\ inMemoryStore' = IF target = "memory"
                        THEN [inMemoryStore EXCEPT ![sid] = val] ELSE inMemoryStore

(* A variant of the mutations that puts a new insight first (unshift)     *)
(* instead of last (push).                                                 *)
MutateUnshiftsInsight(ctx, name, arg) ==
    CASE name = "addDocument" -> [ctx EXCEPT !.documents = Append(@, arg)]
      [] name = "setStripeSnapshot" -> [ctx EXCEPT !.stripe = arg]
      [] name = "setPlaidSnapshot" -> [ctx EXCEPT !.plaid = arg]
      [] name = "addAgentInsight" ->
            [ctx EXCEPT !.agentInsights[arg.agentId] = <<arg.insight>> \o @]
      [] name = "addContradiction" -> [ctx EXCEPT !.contradictions = @ + 1]
      [] name = "setRiskFactors" -> [ctx EXCEPT !.riskFactors = arg]

(* --------------------------- the mutations ---------------------------- *)
Mutate(ctx, name, arg) ==
    CASE name = "addDocument" -> [ctx EXCEPT !.documents = Append(@, arg)]
      [] name = "setStripeSnapshot" -> [ctx EXCEPT !.stripe = arg]
      [] name = "setPlaidSnapshot" -> [ctx EXCEPT !.plaid = arg]
      [] name = "addAgentInsight" ->
            [ctx EXCEPT !.agentInsights[arg.agentId] = Append(@, arg.insight)]
      [] name = "addContradiction" -> [ctx EXCEPT !.contradictions = @ + 1]
      [] name = "setRiskFactors" -> [ctx EXCEPT !.riskFactors = arg]

(* persist(), up to the await inside set(): serialize this.context and      *)
(* either start the cache write or, with no client, write the map at once. *)
PersistStart(c, name, ctx) ==
    LET val == Serialize(ctx)
        started == [IdleOp EXCEPT !.name = name, !.sid = ctx.sessionId, !.val = val]
    IN  IF redis
        THEN /\ op' = [op EXCEPT ![c] = [started EXCEPT !.stage = "set_pending"]]
             /\ UNCHANGED <<redisStore, inMemoryStore>>
        ELSE /\ op' = [op EXCEPT ![c] = [started EXCEPT !.stage = "after_persist"]]
             /\ StoreWrite(SetTarget(FALSE, FALSE), ctx.sessionId, val)

(* createSession, lines 54-68: a fresh context replaces this.context.      *)
CreateSessionBegin(c) ==
    /\ nextSession <= MaxSessions
    /\ context' = NewContext(nextSession)
    /\ nextSession' = nextSession + 1
    /\ written' = [written EXCEPT ![nextSession] = Content(context')]
    /\ PersistStart(c, "createSession", context')
    /\ UNCHANGED <<redis, hasSubscriber>>

(* addDocument .. setRiskFactors, up to `await this.persist()`:            *)
(* ensureSession, then the change to this.context, then persist.           *)
MutateBegin(c, name, arg) ==
    /\ IF context.sessionId = 0
       THEN /\ op' = [op EXCEPT ![c] = [IdleOp EXCEPT !.name = name, !.stage = "threw",
                                                      !.error = "NoActiveSession"]]
            /\ UNCHANGED <<context, written, redisStore, inMemoryStore>>
       ELSE /\ context' = Mutate(context, name, arg)
            /\ written' = [written EXCEPT ![context.sessionId] = Content(context')]
            /\ PersistStart(c, name, context')
    /\ UNCHANGED <<redis, hasSubscriber, nextSession>>

(* The cache write of a pending set() settles: it succeeded, or it failed  *)
(* and the catch falls through to the in-process map.                      *)
SetSettle(c, ok) ==
    /\ op[c].stage = "set_pending"
    /\ LET target == SetTarget(TRUE, ok /\ redis)
       IN  /\ StoreWrite(target, op[c].sid, op[c].val)
           /\ op' = [op EXCEPT ![c] =
                 IF target \in {"redis", "memory"}
                 THEN [@ EXCEPT !.stage = "after_persist", !.cacheFailed = ~(ok /\ redis)]
                 ELSE [@ EXCEPT !.stage = "threw", !.cacheFailed = TRUE,
                                !.error = "CacheError"]]
    /\ UNCHANGED <<redis, context, hasSubscriber, nextSession, written>>

(* notifySubscribers: every callback runs synchronously; one may throw.    *)
Notified(o, throws) ==
    IF hasSubscriber /\ throws
    THEN [o EXCEPT !.stage = "threw", !.error = "SubscriberError"]
    ELSE [o EXCEPT !.stage = "returned"]

(* The code after `await this.persist()`.                                  *)
AfterPersist(c, throws) ==
    /\ op[c].stage = "after_persist"
    /\ op' = [op EXCEPT ![c] =
          CASE op[c].name = "createSession" ->
                  [@ EXCEPT !.stage = "returned", !.result = context.sessionId]
            [] op[c].name = "addAgentInsight" /\ redis ->
                  [@ EXCEPT !.stage = "publish_pending"]
            [] OTHER -> Notified(@, throws)]
    /\ (throws => hasSubscriber /\ op[c].name # "createSession"
                  /\ ~(op[c].name = "addAgentInsight" /\ redis))
    /\ UNCHANGED <<redis, redisStore, inMemoryStore, context, hasSubscriber,
                   nextSession, written>>

(* publishInsight: the publish settles either way and its failure is       *)
(* swallowed; then notifySubscribers.                                      *)
PublishSettle(c, ok, throws) ==
    /\ op[c].stage = "publish_pending"
    /\ op' = [op EXCEPT ![c] = Notified([@ EXCEPT !.pubFailed = ~(ok /\ redis)], throws)]
    /\ (throws => hasSubscriber)
    /\ UNCHANGED <<redis, redisStore, inMemoryStore, context, hasSubscriber,
                   nextSession, written>>

(* loadSession, line 76: get() starts; with no client it reads the map.    *)
LoadSessionBegin(c, sid) ==
    /\ op' = [op EXCEPT ![c] =
          IF redis
          THEN [IdleOp EXCEPT !.name = "loadSession", !.sid = sid, !.stage = "get_pending"]
          ELSE [IdleOp EXCEPT !.name = "loadSession", !.sid = sid, !.stage = "after_get",
                              !.val = GetValue(sid, FALSE, FALSE)]]
    /\ UNCHANGED <<redis, redisStore, inMemoryStore, context, hasSubscriber,
                   nextSession, written>>

(* The cache read settles: its answer, or on failure the map's.            *)
GetSettle(c, ok) ==
    /\ op[c].stage = "get_pending"
    /\ op' = [op EXCEPT ![c] = [@ EXCEPT !.stage = "after_get",
                                        !.val = GetValue(op[c].sid, TRUE, ok /\ redis),
                                        !.cacheFailed = ~(ok /\ redis)]]
    /\ UNCHANGED <<redis, redisStore, inMemoryStore, context, hasSubscriber,
                   nextSession, written>>

(* loadSession, lines 77-84: null for no data, else the parsed session     *)
(* replaces this.context.                                                  *)
LoadSessionFinish(c) ==
    /\ op[c].stage = "after_get"
    /\ IF op[c].val.sessionId = 0
       THEN /\ op' = [op EXCEPT ![c] = [@ EXCEPT !.stage = "returned", !.result = 0]]
            /\ UNCHANGED context
       ELSE /\ op' = [op EXCEPT ![c] = [@ EXCEPT !.stage = "returned",
                                               !.result = op[c].val.sessionId]]
            /\ context' = ParseSession(op[c].val)
    /\ UNCHANGED <<redis, redisStore, inMemoryStore, hasSubscriber, nextSession, written>>

(* The client's 'error' listener, lines 38-41: this.redis = null.          *)
RedisErrorEvent ==
    /\ redis
    /\ redis' = FALSE
    /\ UNCHANGED <<redisStore, inMemoryStore, context, hasSubscriber, op,
                   nextSession, written>>

(* subscribe(id, callback), lines 182-185.                                 *)
StoreSubscribe ==
    /\ ~hasSubscriber
    /\ hasSubscriber' = TRUE
    /\ UNCHANGED <<redis, redisStore, inMemoryStore, context, op, nextSession, written>>

InitStore ==
    /\ redis \in BOOLEAN
    /\ redisStore = [s \in SessionIds |-> NoData]
    /\ inMemoryStore = [s \in SessionIds |-> NoData]
    /\ context = NullContext
    /\ hasSubscriber = FALSE
    /\ op = [c \in Callers |-> IdleOp]
    /\ nextSession = 1
    /\ written = [s \in SessionIds |-> NoData]


(* ================= SpecStore: a client drives the store ================ *)
(* What the client passes in.                                              *)
ClientDocs == {DocPLPos, DocEmpty}
ClientInsights == {[agentId |-> a, insight |-> Insight(a, 1, 10)] : a \in Agents}
ClientRiskFactors == [kind |-> "synthesized", insights |-> <<>>]

InsightCount(ctx) ==
    LET RECURSIVE Sum(_)
        Sum(S) == IF S = {} THEN 0
                  ELSE LET a == CHOOSE x \in S : TRUE
                       IN  Len(ctx.agentInsights[a]) + Sum(S \ {a})
    IN  Sum(Agents)

ClientCreateSession ==
    /\ op["client"].stage = "idle"
    /\ clientCalls < MaxClientCalls
    /\ clientCalls' = clientCalls + 1
    /\ UNCHANGED <<funcVars, callVars>>
    /\ CreateSessionBegin("client")
    /\ UNCHANGED <<busVars, orchVars>>

ClientLoadSession ==
    /\ op["client"].stage = "idle"
    /\ \E sid \in 1..(nextSession - 1) : LoadSessionBegin("client", sid)
    /\ UNCHANGED <<clientCalls, funcVars, callVars, busVars, orchVars>>

ClientAddDocument ==
    /\ op["client"].stage = "idle"
    /\ clientCalls < MaxClientCalls
    /\ clientCalls' = clientCalls + 1
    /\ UNCHANGED <<funcVars, callVars>>
    /\ Len(context.documents) < MaxDocs
    /\ \E d \in ClientDocs : MutateBegin("client", "addDocument", d)
    /\ UNCHANGED <<busVars, orchVars>>

ClientSetStripeSnapshot ==
    /\ op["client"].stage = "idle"
    /\ clientCalls < MaxClientCalls
    /\ clientCalls' = clientCalls + 1
    /\ UNCHANGED <<funcVars, callVars>>
    /\ MutateBegin("client", "setStripeSnapshot", StripeLive)
    /\ UNCHANGED <<busVars, orchVars>>

ClientSetPlaidSnapshot ==
    /\ op["client"].stage = "idle"
    /\ clientCalls < MaxClientCalls
    /\ clientCalls' = clientCalls + 1
    /\ UNCHANGED <<funcVars, callVars>>
    /\ MutateBegin("client", "setPlaidSnapshot", PlaidLive)
    /\ UNCHANGED <<busVars, orchVars>>

ClientAddAgentInsight ==
    /\ op["client"].stage = "idle"
    /\ clientCalls < MaxClientCalls
    /\ clientCalls' = clientCalls + 1
    /\ UNCHANGED <<funcVars, callVars>>
    /\ InsightCount(context) < MaxStoreInsights
    /\ \E i \in ClientInsights : MutateBegin("client", "addAgentInsight", i)
    /\ UNCHANGED <<busVars, orchVars>>

ClientAddContradiction ==
    /\ op["client"].stage = "idle"
    /\ clientCalls < MaxClientCalls
    /\ clientCalls' = clientCalls + 1
    /\ UNCHANGED <<funcVars, callVars>>
    /\ context.contradictions < MaxContradictions
    /\ MutateBegin("client", "addContradiction", 0)
    /\ UNCHANGED <<busVars, orchVars>>

ClientSetRiskFactors ==
    /\ op["client"].stage = "idle"
    /\ clientCalls < MaxClientCalls
    /\ clientCalls' = clientCalls + 1
    /\ UNCHANGED <<funcVars, callVars>>
    /\ MutateBegin("client", "setRiskFactors", ClientRiskFactors)
    /\ UNCHANGED <<busVars, orchVars>>

ClientSubscribe ==
    /\ StoreSubscribe
    /\ UNCHANGED <<clientCalls, funcVars, callVars, busVars, orchVars>>

(* The awaited call has settled: the client goes on.                       *)
ClientReturn ==
    /\ op["client"].stage \in {"returned", "threw"}
    /\ op' = [op EXCEPT !["client"] = IdleOp]
    /\ UNCHANGED <<redis, redisStore, inMemoryStore, context, hasSubscriber,
                   nextSession, written, clientCalls, funcVars, callVars, busVars, orchVars>>

CacheSetSettles ==
    /\ \E c \in Callers, ok \in BOOLEAN : SetSettle(c, ok)
    /\ UNCHANGED <<clientCalls, funcVars, callVars, busVars, orchVars>>

CacheGetSettles ==
    /\ \E c \in Callers, ok \in BOOLEAN : GetSettle(c, ok)
    /\ UNCHANGED <<clientCalls, funcVars, callVars, busVars, orchVars>>

CachePublishSettles ==
    /\ \E c \in Callers, ok \in BOOLEAN, throws \in BOOLEAN : PublishSettle(c, ok, throws)
    /\ UNCHANGED <<clientCalls, funcVars, callVars, busVars, orchVars>>

StoreAfterPersist ==
    /\ \E c \in Callers, throws \in BOOLEAN : AfterPersist(c, throws)
    /\ UNCHANGED <<clientCalls, funcVars, callVars, busVars, orchVars>>

StoreLoadFinish ==
    /\ \E c \in Callers : LoadSessionFinish(c)
    /\ UNCHANGED <<clientCalls, funcVars, callVars, busVars, orchVars>>

CacheConnectionError ==
    /\ RedisErrorEvent
    /\ UNCHANGED <<clientCalls, funcVars, callVars, busVars, orchVars>>

NoRun ==
    [startContext |-> NullContext, reused |-> FALSE, sessionId |-> 0,
     synthInput |-> <<>>, stagesRun |-> <<>>, pendingError |-> "none",
     result |-> [kind |-> "none"], thrown |-> "none", executed |-> {},
     execThrew |-> {}, appendThrew |-> {}]

(* An entry of state.errors: whose failure, and which.                     *)
ErrorOf(who, error) == [task |-> who, error |-> error]

NoState == [sessionId |-> 0, status |-> "none",
            agentStatuses |-> [a \in Agents |-> "unset"], errors |-> <<>>]

InitBus ==
    /\ listeners = <<>>
    /\ messageLog = <<>>
    /\ inbox = [a \in Agents |-> <<>>]
    /\ pendingRequests = {}
    /\ requests = <<>>

(* A call of analyze() that has not been made: where it stands, the id of  *)
(* the session its state object recorded, and per task where the map       *)
(* callback stands.                                                        *)
CallIds == 1..MaxCalls
NoCall == [pc |-> "idle", sessionId |-> 0, taskPc |-> [a \in Agents |-> "pending"],
           insights |-> <<>>, thrown |-> "none"]

InitCalls ==
    /\ calls = [c \in CallIds |-> NoCall]
    /\ stateOwner = 0
    /\ agentUnsubscribe = [a \in Agents |-> FALSE]

InitOrch ==
    /\ orchPc = "idle"
    /\ state = NoState
    /\ taskPc = [a \in Agents |-> "pending"]
    /\ taskAttempt = [a \in Agents |-> 0]
    /\ taskResult = [a \in Agents |-> <<>>]
    /\ taskIdx = [a \in Agents |-> 0]
    /\ taskOut = [a \in Agents |-> <<>>]
    /\ runInfo = NoRun
    /\ InitCalls

Init == InitStore /\ clientCalls = 0 /\ InitBus /\ InitOrch /\ InitFunc

NextStore ==
    \/ ClientCreateSession
    \/ ClientLoadSession
    \/ ClientAddDocument
    \/ ClientSetStripeSnapshot
    \/ ClientSetPlaidSnapshot
    \/ ClientAddAgentInsight
    \/ ClientAddContradiction
    \/ ClientSetRiskFactors
    \/ ClientSubscribe
    \/ ClientReturn
    \/ CacheSetSettles
    \/ CacheGetSettles
    \/ CachePublishSettles
    \/ StoreAfterPersist
    \/ StoreLoadFinish
    \/ CacheConnectionError

SpecStore == Init /\ [][NextStore]_vars


(* ============================== MessageBus ============================= *)
(* correlationId 0: the message carries none.                              *)
Message(from, to, type) == [from |-> from, to |-> to, type |-> type, correlationId |-> 0]
Correlated(msg, id) == [msg EXCEPT !.correlationId = id]

(* A variant of broadcastHandler without the `msg.from === agentId` test.   *)
DeliveriesEchoSender(subs, msg) ==
    SelectSeq(subs, LAMBDA l : IF msg.to = "broadcast" THEN TRUE ELSE l = msg.to)

(* subscribe(agentId, handler) registers specificHandler on                *)
(* `message:<agentId>` and broadcastHandler on `message`; emit calls the    *)
(* listeners of the event in registration order.  The result: the task ids *)
(* whose handler is called with msg, one entry per call.                   *)
Deliveries(subs, msg) ==
    SelectSeq(subs, LAMBDA l : IF msg.to = "broadcast" THEN l # msg.from
                                                       ELSE l = msg.to)

RECURSIVE Deliver(_, _, _)
Deliver(box, who, msg) ==
    IF who = <<>> THEN box
    ELSE Deliver([box EXCEPT ![Head(who)] = Append(@, msg)], Tail(who), msg)

(* send(message): log it, then emit it.  The state of the bus afterwards.  *)
BusAfterSend(bus, msg) ==
    [listeners |-> bus.listeners,
     messageLog |-> Append(bus.messageLog, msg),
     inbox |-> Deliver(bus.inbox, Deliveries(bus.listeners, msg), msg)]

RECURSIVE BusAfterSends(_, _)
BusAfterSends(bus, msgs) ==
    IF msgs = <<>> THEN bus
    ELSE BusAfterSends(BusAfterSend(bus, Head(msgs)), Tail(msgs))

(* A variant of the function subscribe returns that leaves both handlers   *)
(* registered.                                                             *)
UnsubscribedKeepsHandlers(subs, a) == subs

(* The function subscribe returns: off() for both handlers.                *)
RemoveAt(seq, i) == SubSeq(seq, 1, i - 1) \o SubSeq(seq, i + 1, Len(seq))
Unsubscribed(subs, a) ==
    IF \E i \in 1..Len(subs) : subs[i] = a
    THEN RemoveAt(subs, CHOOSE i \in 1..Len(subs) :
                           subs[i] = a /\ \A j \in (i + 1)..Len(subs) : subs[j] # a)
    ELSE subs

Bus == [listeners |-> listeners, messageLog |-> messageLog, inbox |-> inbox]
SetBus(bus) ==
    /\ listeners' = bus.listeners
    /\ messageLog' = bus.messageLog
    /\ inbox' = bus.inbox
    /\ UNCHANGED reqVars

(* ================== SpecBus: clients drive the bus ===================== *)
BusSubscribe ==
    /\ Len(listeners) < MaxSubscriptions
    /\ \E a \in Agents : listeners' = Append(listeners, a)
    /\ UNCHANGED <<messageLog, inbox, reqVars, storeVars, clientCalls, funcVars, callVars, orchVars>>

BusUnsubscribe ==
    /\ \E i \in 1..Len(listeners) : listeners' = RemoveAt(listeners, i)
    /\ UNCHANGED <<messageLog, inbox, reqVars, storeVars, clientCalls, funcVars, callVars, orchVars>>

BusSendDirect ==
    /\ Len(messageLog) < MaxMessages
    /\ \E from \in Agents, to \in Agents :
          SetBus(BusAfterSend(Bus, Message(from, to, "data_request")))
    /\ UNCHANGED <<storeVars, clientCalls, funcVars, callVars, orchVars>>

BusBroadcast ==
    /\ Len(messageLog) < MaxMessages
    /\ \E from \in Agents, type \in {"insight_update", "contradiction_alert"} :
          SetBus(BusAfterSend(Bus, Message(from, "broadcast", type)))
    /\ UNCHANGED <<storeVars, clientCalls, funcVars, callVars, orchVars>>

NextBus ==
    \/ BusSubscribe
    \/ BusUnsubscribe
    \/ BusSendDirect
    \/ BusBroadcast

SpecBus == Init /\ [][NextBus]_vars


(* ---------------- request / respond / clear (MessageBus) --------------- *)
(* What request() creates: the timer set by setTimeout and the promise it  *)
(* returns.  response is the correlation id of the message it resolved     *)
(* with, 0 while there is none.                                            *)
NewRequest(from, to) ==
    [from |-> from, to |-> to, timer |-> "armed", outcome |-> "pending", response |-> 0]

(* resolve / reject of a promise: only the first call settles it.          *)
Settle(r, outcome) == IF r.outcome = "pending" THEN [r EXCEPT !.outcome = outcome] ELSE r

(* request(from, to, type, payload, timeoutMs), lines 71-96: arm the       *)
(* timer, enter the pending set, send the correlated message.              *)
Request(from, to) ==
    LET id == Len(requests) + 1
    IN  /\ requests' = Append(requests, NewRequest(from, to))
        /\ pendingRequests' = pendingRequests \cup {id}
        /\ LET bus == BusAfterSend(Bus, Correlated(Message(from, to, "data_request"), id))
           IN  /\ listeners' = bus.listeners
               /\ messageLog' = bus.messageLog
               /\ inbox' = bus.inbox

(* A variant of respond's `if (pending)` block without clearTimeout.       *)
RespondedKeepsTimer(r, id) ==
    [Settle(r, "resolved") EXCEPT !.response = IF r.outcome = "pending" THEN id ELSE @]

(* respond, lines 107-111 and 121-131, for a request found pending:        *)
(* clearTimeout, and resolve with a message carrying its correlation id.   *)
Responded(r, id) ==
    [Settle(r, "resolved") EXCEPT !.timer = "cleared",
                                  !.response = IF r.outcome = "pending" THEN id ELSE @]

(* respond(originalMessage, from, payload), lines 101-131, for the message *)
(* of request `id`: the data_response is sent whether or not the request   *)
(* is still pending.                                                       *)
Respond(id, from) ==
    LET pending == id \in pendingRequests
        reply == Correlated(Message(from, requests[id].from, "data_response"), id)
        bus == BusAfterSend(Bus, reply)
    IN  /\ pendingRequests' = pendingRequests \ {id}
        /\ requests' = IF pending THEN [requests EXCEPT ![id] = Responded(@, id)]
                       ELSE requests
        /\ listeners' = bus.listeners
        /\ messageLog' = bus.messageLog
        /\ inbox' = bus.inbox

(* A variant of the setTimeout callback that keeps the pending entry.      *)
TimeoutKeepsEntry(id) ==
    /\ requests[id].timer = "armed"
    /\ pendingRequests' = pendingRequests
    /\ requests' = [requests EXCEPT ![id] =
                       [Settle(@, "RequestTimeout") EXCEPT !.timer = "fired"]]
    /\ UNCHANGED <<listeners, messageLog, inbox>>

(* The setTimeout callback of request `id`, lines 81-84.                   *)
Timeout(id) ==
    /\ requests[id].timer = "armed"
    /\ pendingRequests' = pendingRequests \ {id}
    /\ requests' = [requests EXCEPT ![id] =
                       [Settle(@, "RequestTimeout") EXCEPT !.timer = "fired"]]
    /\ UNCHANGED <<listeners, messageLog, inbox>>

(* A variant of clear's loop without clearTimeout.                         *)
ClearedKeepsTimer(r) == Settle(r, "BusCleared")

(* clear, lines 198-201, for one pending entry: clearTimeout and reject.   *)
Cleared(r) == [Settle(r, "BusCleared") EXCEPT !.timer = "cleared"]

(* clear(), lines 196-203.                                                 *)
Clear ==
    /\ messageLog' = <<>>
    /\ requests' = [id \in DOMAIN requests |->
                       IF id \in pendingRequests THEN Cleared(requests[id])
                       ELSE requests[id]]
    /\ pendingRequests' = {}
    /\ UNCHANGED <<listeners, inbox>>

(* ============= SpecRequest: clients drive correlated requests ========== *)
InboxRoom == \A a \in Agents : Len(inbox[a]) < MaxDeliveries

BusRequest ==
    /\ Len(requests) < MaxRequests
    /\ Len(messageLog) < MaxMessages
    /\ InboxRoom
    /\ \E from \in Agents, to \in Agents : Request(from, to)
    /\ UNCHANGED <<storeVars, clientCalls, funcVars, callVars, orchVars>>

BusRespond ==
    /\ Len(messageLog) < MaxMessages
    /\ InboxRoom
    /\ \E id \in DOMAIN requests : Respond(id, requests[id].to)
    /\ UNCHANGED <<storeVars, clientCalls, funcVars, callVars, orchVars>>

BusTimeout ==
    /\ \E id \in DOMAIN requests : Timeout(id)
    /\ UNCHANGED <<storeVars, clientCalls, funcVars, callVars, orchVars>>

BusClear ==
    /\ Clear
    /\ UNCHANGED <<storeVars, clientCalls, funcVars, callVars, orchVars>>

NextRequest ==
    \/ BusSubscribe
    \/ BusRequest
    \/ BusRespond
    \/ BusTimeout
    \/ BusClear

SpecRequest == Init /\ [][NextRequest]_vars

(* The timer of request `id` fires: the event loop runs the callback of an *)
(* armed timer once its delay has passed.                                  *)
TimerFires(id) ==
    /\ id \in DOMAIN requests
    /\ Timeout(id)
    /\ UNCHANGED <<storeVars, clientCalls, funcVars, callVars, orchVars>>

SpecRequestLive ==
    SpecRequest /\ \A id \in 1..MaxRequests : WF_vars(TimerFires(id))


(* ===================== the obvious-case pre-filter ===================== *)
HasDocuments(ctx) == Len(ctx.documents) > 0
HasStripe(ctx) == ctx.stripe.present /\ (ctx.stripe.mrr > 0 \/ ctx.stripe.customerCount > 0)
HasPlaid(ctx) == ctx.plaid.present /\ (ctx.plaid.accounts > 0 \/ ctx.plaid.transactions)

isNoDataCase(ctx) == ~HasDocuments(ctx) /\ ~HasStripe(ctx) /\ ~HasPlaid(ctx)

IsEmptyData(data) == data.isNull \/ (data.years = <<>> /\ data.flat = NoFields)

isEmptyDocumentsCase(ctx) ==
    /\ HasDocuments(ctx)
    /\ \A k \in 1..Len(ctx.documents) : IsEmptyData(ctx.documents[k].data)

(* documents.find(d => d.type === type): the first such document, if any.  *)
HasDocOfType(ctx, type) == \E k \in 1..Len(ctx.documents) : ctx.documents[k].type = type
FindDoc(ctx, type) ==
    ctx.documents[CHOOSE k \in 1..Len(ctx.documents) :
                     /\ ctx.documents[k].type = type
                     /\ \A j \in 1..(k - 1) : ctx.documents[j].type # type]

(* extractLatestNumericValue: the latest year's record when there are year *)
(* keys, else the flat fields.                                             *)
LatestFields(data) == IF data.years # <<>> THEN data.years[Len(data.years)] ELSE data.flat

isAllNegativeCase(ctx) ==
    /\ HasDocOfType(ctx, "profit_and_loss")
    /\ LET data == FindDoc(ctx, "profit_and_loss").data
           Negative(x) == x # Undef /\ Val(x) < 0
       IN  /\ ~data.isNull
           /\ IF data.years # <<>>
              THEN \A y \in 1..Len(data.years) : Negative(data.years[y].netIncome)
              ELSE Negative(data.flat.netIncome)

(* extractNumericValue(yearData, ...) reads a property of yearData: a      *)
(* TypeError when it is null.  years.every stops at the first year that is *)
(* not negative, so it reaches a null year only past negative ones.        *)
AllNegativeThrows(ctx) ==
    /\ HasDocOfType(ctx, "profit_and_loss")
    /\ LET data == FindDoc(ctx, "profit_and_loss").data
           Negative(x) == x # Undef /\ Val(x) < 0
       IN  /\ ~data.isNull
           /\ \E y \in 1..Len(data.years) :
                 /\ data.years[y].isNull
                 /\ \A j \in 1..(y - 1) : Negative(data.years[j].netIncome)

(* extractLatestNumericValue hands the latest year's value to              *)
(* extractNumericValue.                                                    *)
LatestThrows(ctx, type) ==
    /\ HasDocOfType(ctx, type)
    /\ LET data == FindDoc(ctx, type).data
       IN  ~data.isNull /\ data.years # <<>> /\ LatestFields(data).isNull

isNegativeEquityCase(ctx) ==
    /\ HasDocOfType(ctx, "balance_sheet")
    /\ LET data == FindDoc(ctx, "balance_sheet").data
           f == LatestFields(data)
       IN  /\ ~data.isNull
           /\ IF f.equity # Undef /\ Val(f.equity) < 0 THEN TRUE
              ELSE IF f.totalAssets # Undef /\ f.totalLiabilities # Undef
                   THEN Val(f.totalLiabilities) > Val(f.totalAssets)
                   ELSE FALSE

isZeroRevenueCase(ctx) ==
    /\ HasDocOfType(ctx, "profit_and_loss")
    /\ LET data == FindDoc(ctx, "profit_and_loss").data
           f == LatestFields(data)
       IN  ~data.isNull /\ f.revenue # Undef /\ Val(f.revenue) = 0

(* checkObviousCases: the first matching case, "none" for null, or         *)
(* "TypeError" when the helper reached first throws.  The arms are tried   *)
(* in the order written.                                                   *)
checkObviousCases(ctx) ==
    CASE isNoDataCase(ctx) -> "no_data"
      [] isEmptyDocumentsCase(ctx) -> "empty_documents"
      [] AllNegativeThrows(ctx) -> "TypeError"
      [] isAllNegativeCase(ctx) -> "all_negative"
      [] LatestThrows(ctx, "balance_sheet") -> "TypeError"
      [] isNegativeEquityCase(ctx) -> "negative_equity"
      [] LatestThrows(ctx, "profit_and_loss") -> "TypeError"
      [] isZeroRevenueCase(ctx) -> "zero_revenue"
      [] OTHER -> "none"

(* options.serviceabilityOverride of each call in checkObviousCases.       *)
serviceabilityOverride(caseType) ==
    CASE caseType = "all_negative" -> Num(10)
      [] caseType = "negative_equity" -> Num(8)
      [] caseType = "zero_revenue" -> Num(5)
      [] OTHER -> Undef

(* A variant of createMinimalRiskFactors with the synthesizer's weights.   *)
createMinimalRiskFactorsSynthWeights(baseScore, override) ==
    [serviceability |-> Factor(IF override # Undef THEN Val(override) ELSE baseScore, 30),
     concentration |-> Factor(baseScore, 25),
     retention |-> Factor(baseScore, 25),
     compliance |-> Factor(baseScore, 20)]

(* createMinimalRiskFactors: score = override ?? baseScore, weight 0.25;   *)
(* only serviceability is ever overridden.                                 *)
createMinimalRiskFactors(baseScore, override) ==
    [serviceability |-> Factor(IF override # Undef THEN Val(override) ELSE baseScore, 25),
     concentration |-> Factor(baseScore, 25),
     retention |-> Factor(baseScore, 25),
     compliance |-> Factor(baseScore, 25)]

ObviousScore(caseType) ==
    CASE caseType = "no_data" -> 0
      [] caseType = "empty_documents" -> 0
      [] caseType = "all_negative" -> 15
      [] caseType = "negative_equity" -> 12
      [] caseType = "zero_revenue" -> 5

getTasksForCaseType(caseType) ==
    CASE caseType = "no_data" -> <<"upload-financials", "connect-apis">>
      [] caseType = "empty_documents" -> <<"upload-readable-docs">>
      [] caseType = "all_negative" -> <<"cost-reduction", "revenue-growth">>
      [] caseType = "negative_equity" -> <<"debt-restructuring", "capital-injection">>
      [] caseType = "zero_revenue" -> <<"first-sale">>

(* createObviousResult: the canned score and roadmap of a case.            *)
ObviousResult(caseType) ==
    [kind |-> "obvious", caseType |-> caseType, score |-> ObviousScore(caseType),
     grade |-> "F", tasks |-> getTasksForCaseType(caseType),
     riskFactors |-> createMinimalRiskFactors(ObviousScore(caseType),
                                              serviceabilityOverride(caseType)),
     penalties |-> <<>>]


(* ============================== BaseAgent ============================== *)
(* validateDataSufficiency.                                                *)
validateDataSufficiency(ctx) == HasDocuments(ctx) \/ HasStripe(ctx) \/ HasPlaid(ctx)

(* A variant that penalises the missing data instead of staying neutral.   *)
createPenalisingInsight(a) == Insight(a, 0, 0 - 10)

createInsufficientDataInsight(a) == Insight(a, 0, InsufficientImpact)

Abs(x) == IF x < 0 THEN 0 - x ELSE x

(* processLLMResponse on a conforming response of k insights.              *)
InsightsOf(a, impacts) == [n \in 1..Len(impacts) |-> Insight(a, n, impacts[n])]

(* execute, lines 122-130: one broadcast per insight with |impact| > 20.   *)
Broadcasts(a, insights) ==
    LET significant == SelectSeq(insights, LAMBDA i : Abs(i.impact) > BroadcastThreshold)
    IN  [k \in 1..Len(significant) |-> Message(a, "broadcast", "insight_update")]

(* The conforming responses tried: k insights, the odd ones significant.   *)
ImpactLists == {[n \in 1..k |-> IF n % 2 = 1 THEN 30 ELSE 10] : k \in 0..MaxInsights}

(* =========================== AgentOrchestrator ========================= *)
RegisteredOrder == SelectSeq(AgentIds, LAMBDA a : a \in Agents)

(* analyze, lines 80-92: keep the store's context or create a session.     *)
ReusesSession(ctx) == ctx.sessionId # 0 /\ Len(ctx.documents) > 0

NewState(sid) == [NoState EXCEPT !.sessionId = sid, !.status = "initializing"]

(* analyze() is called: the session is kept (and this.state set), or       *)
(* createSession is awaited.                                               *)
AnalyzeBegin ==
    /\ orchPc = "idle"
    /\ IF ReusesSession(context)
       THEN /\ runInfo' = [runInfo EXCEPT !.startContext = context, !.reused = TRUE,
                                          !.sessionId = context.sessionId]
            /\ state' = NewState(context.sessionId)
            /\ orchPc' = "initialized"
            /\ UNCHANGED storeVars
       ELSE /\ runInfo' = [runInfo EXCEPT !.startContext = context]
            /\ CreateSessionBegin("orchestrator")
            /\ orchPc' = "creating"
            /\ UNCHANGED <<state, redis, hasSubscriber>>
    /\ UNCHANGED <<clientCalls, funcVars, callVars, busVars, taskPc, taskAttempt, taskResult, taskIdx, taskOut>>

(* createSession has returned this.context: lines 94-100.                  *)
AnalyzeCreated ==
    /\ orchPc = "creating"
    /\ op["orchestrator"].stage = "returned"
    /\ runInfo' = [runInfo EXCEPT !.sessionId = op["orchestrator"].result]
    /\ state' = NewState(op["orchestrator"].result)
    /\ op' = [op EXCEPT !["orchestrator"] = IdleOp]
    /\ orchPc' = "initialized"
    /\ UNCHANGED <<redis, redisStore, inMemoryStore, context, hasSubscriber, nextSession,
                   written, clientCalls, funcVars, callVars, busVars, taskPc, taskAttempt, taskResult,
                   taskIdx, taskOut>>

(* executeWorkflow, line 133, and the synchronous part of every map         *)
(* callback of runAgentsParallel: mark the task running and run execute()  *)
(* up to its first await: subscribe, then either return the insufficient-  *)
(* data insight (finally: unsubscribe) or start the analysis call.         *)
FanOut ==
    /\ orchPc = "initialized"
    /\ LET hasData == validateDataSufficiency(context)
       IN  /\ state' = [state EXCEPT !.status = "analyzing",
                                     !.agentStatuses = [a \in Agents |-> "running"]]
           /\ listeners' = IF hasData THEN listeners \o RegisteredOrder ELSE listeners
           /\ taskPc' = [a \in Agents |-> IF hasData THEN "llm" ELSE "exec_returned"]
           /\ taskResult' = [a \in Agents |-> IF hasData THEN <<>>
                                              ELSE <<createInsufficientDataInsight(a)>>]
    /\ runInfo' = [runInfo EXCEPT !.executed = Agents]
    /\ orchPc' = "awaiting_tasks"
    /\ UNCHANGED <<storeVars, clientCalls, funcVars, callVars, messageLog, inbox, reqVars, taskAttempt, taskIdx,
                   taskOut>>

(* callLLMWithAudit: generateContent or JSON.parse threw.  Retry, or on    *)
(* the third failure throw out of execute (finally: unsubscribe).          *)
LLMMalformed(a) ==
    /\ taskPc[a] = "llm"
    /\ IF taskAttempt[a] + 1 >= MaxAttempts
       THEN /\ taskPc' = [taskPc EXCEPT ![a] = "threw_unparseable"]
            /\ taskAttempt' = [taskAttempt EXCEPT ![a] = 0]
            /\ listeners' = Unsubscribed(listeners, a)
            /\ runInfo' = [runInfo EXCEPT !.execThrew = @ \cup {a}]
       ELSE /\ taskAttempt' = [taskAttempt EXCEPT ![a] = @ + 1]
            /\ UNCHANGED <<taskPc, listeners, runInfo>>
    /\ UNCHANGED <<storeVars, clientCalls, funcVars, callVars, messageLog, inbox, reqVars, orchPc, state, taskResult,
                   taskIdx, taskOut>>

(* The response parsed as JSON but has no insights array:                  *)
(* processLLMResponse throws (finally: unsubscribe).                       *)
LLMBadShape(a) ==
    /\ taskPc[a] = "llm"
    /\ taskPc' = [taskPc EXCEPT ![a] = "threw_badshape"]
    /\ taskAttempt' = [taskAttempt EXCEPT ![a] = 0]
    /\ listeners' = Unsubscribed(listeners, a)
    /\ runInfo' = [runInfo EXCEPT !.execThrew = @ \cup {a}]
    /\ UNCHANGED <<storeVars, clientCalls, funcVars, callVars, messageLog, inbox, reqVars, orchPc, state,
                   taskResult, taskIdx, taskOut>>

(* A conforming response: its insights, the broadcasts of the significant  *)
(* ones, unsubscribe, return.                                              *)
LLMConforming(a, impacts) ==
    /\ taskPc[a] = "llm"
    /\ LET insights == InsightsOf(a, impacts)
           bus == BusAfterSends(Bus, Broadcasts(a, insights))
       IN  /\ SetBus([bus EXCEPT !.listeners = Unsubscribed(@, a)])
           /\ taskResult' = [taskResult EXCEPT ![a] = insights]
    /\ taskPc' = [taskPc EXCEPT ![a] = "exec_returned"]
    /\ taskAttempt' = [taskAttempt EXCEPT ![a] = 0]
    /\ UNCHANGED <<storeVars, clientCalls, funcVars, callVars, orchPc, state, taskIdx, taskOut, runInfo>>

(* runAgentsParallel, lines 161-166: execute() or the previous             *)
(* addAgentInsight has returned; hand the next insight to the store, or    *)
(* with none left mark the task complete and return its insights.          *)
TaskContinue(a) ==
    /\ \/ taskPc[a] = "exec_returned"
       \/ taskPc[a] = "persisting" /\ op[a].stage = "returned"
    /\ IF taskIdx[a] < Len(taskResult[a])
       THEN /\ MutateBegin(a, "addAgentInsight",
                           [agentId |-> a, insight |-> taskResult[a][taskIdx[a] + 1]])
            /\ taskIdx' = [taskIdx EXCEPT ![a] = @ + 1]
            /\ taskPc' = [taskPc EXCEPT ![a] = "persisting"]
            /\ UNCHANGED <<state, taskOut>>
       ELSE /\ state' = [state EXCEPT !.agentStatuses[a] = "complete"]
            /\ taskOut' = [taskOut EXCEPT ![a] = taskResult[a]]
            /\ taskPc' = [taskPc EXCEPT ![a] = "done"]
            /\ op' = [op EXCEPT ![a] = IdleOp]
            /\ UNCHANGED <<redis, redisStore, inMemoryStore, context, hasSubscriber,
                           nextSession, written, taskIdx>>
    /\ UNCHANGED <<clientCalls, funcVars, callVars, busVars, orchPc, taskAttempt, taskResult, runInfo>>

(* What execute() threw: the retry loop's final error, or the TypeError of *)
(* processLLMResponse.                                                     *)
ExecuteError(pc) ==
    IF pc = "threw_unparseable" THEN "AnalysisUnparseable" ELSE "ResponseShapeError"

(* A variant of the map callback without the catch: the task's failure    *)
(* rejects Promise.all and so the workflow.                                *)
TaskCatchRethrows(a) ==
    /\ \/ taskPc[a] \in {"threw_unparseable", "threw_badshape"}
       \/ taskPc[a] = "persisting" /\ op[a].stage = "threw"
    /\ orchPc = "awaiting_tasks"
    /\ state' = state
    /\ runInfo' = [runInfo EXCEPT
                      !.appendThrew = IF taskPc[a] = "persisting" THEN @ \cup {a} ELSE @,
                      !.pendingError = IF taskPc[a] = "persisting" THEN op[a].error
                                       ELSE ExecuteError(taskPc[a])]
    /\ taskOut' = [taskOut EXCEPT ![a] = <<>>]
    /\ taskPc' = [taskPc EXCEPT ![a] = "done"]
    /\ op' = [op EXCEPT ![a] = IdleOp]
    /\ orchPc' = "failing"
    /\ UNCHANGED <<redis, redisStore, inMemoryStore, context, hasSubscriber, nextSession,
                   written, clientCalls, funcVars, callVars, busVars, taskAttempt, taskResult, taskIdx>>

(* runAgentsParallel, lines 167-171: execute() or addAgentInsight threw.   *)
TaskCatch(a) ==
    /\ \/ taskPc[a] \in {"threw_unparseable", "threw_badshape"}
       \/ taskPc[a] = "persisting" /\ op[a].stage = "threw"
    /\ state' = [state EXCEPT !.agentStatuses[a] = "error",
                              !.errors = Append(@, ErrorOf(a,
                                  IF taskPc[a] = "persisting" THEN op[a].error
                                  ELSE ExecuteError(taskPc[a])))]
    /\ runInfo' = [runInfo EXCEPT !.appendThrew =
                      IF taskPc[a] = "persisting" THEN @ \cup {a} ELSE @]
    /\ taskOut' = [taskOut EXCEPT ![a] = <<>>]
    /\ taskPc' = [taskPc EXCEPT ![a] = "done"]
    /\ op' = [op EXCEPT ![a] = IdleOp]
    /\ orchPc' = orchPc
    /\ UNCHANGED <<redis, redisStore, inMemoryStore, context, hasSubscriber, nextSession,
                   written, clientCalls, funcVars, callVars, busVars, taskAttempt, taskResult, taskIdx>>

RECURSIVE Flat(_, _)
Flat(out, order) ==
    IF order = <<>> THEN <<>> ELSE out[Head(order)] \o Flat(out, Tail(order))

(* A variant that settles with the first callback to return (Promise.race /   *)
(* Promise.any).                                                           *)
AnySettled(pcs) == \E a \in Agents : pcs[a] = "done"

(* Promise.all: fulfilled once every map callback has returned.            *)
AllSettled(pcs) == \A a \in Agents : pcs[a] = "done"

(* Promise.all has every callback's result: lines 174-175 and 137.         *)
FanIn ==
    /\ orchPc = "awaiting_tasks"
    /\ AllSettled(taskPc)
    /\ runInfo' = [runInfo EXCEPT !.synthInput = Flat(taskOut, RegisteredOrder)]
    /\ state' = [state EXCEPT !.status = "synthesizing"]
    /\ orchPc' = "synthesize"
    /\ UNCHANGED <<storeVars, clientCalls, funcVars, callVars, busVars, taskPc, taskAttempt, taskResult,
                   taskIdx, taskOut>>

(* Lines 138-140: synthesizeRiskFactors, then setRiskFactors is called.    *)
Synthesize(throws) ==
    /\ orchPc = "synthesize"
    /\ IF throws
       THEN /\ runInfo' = [runInfo EXCEPT !.stagesRun = Append(@, "synthesize"),
                                          !.pendingError = "SynthesizeError"]
            /\ orchPc' = "failing"
            /\ UNCHANGED storeVars
       ELSE /\ runInfo' = [runInfo EXCEPT
                              !.stagesRun = @ \o <<"synthesize", "setRiskFactors">>]
            /\ MutateBegin("orchestrator", "setRiskFactors",
                           [kind |-> "synthesized", insights |-> runInfo.synthInput])
            /\ orchPc' = "storing"
    /\ UNCHANGED <<clientCalls, funcVars, callVars, busVars, state, taskPc, taskAttempt, taskResult, taskIdx,
                   taskOut>>

(* setRiskFactors threw.                                                   *)
StoreRiskFactorsFailed ==
    /\ orchPc = "storing"
    /\ op["orchestrator"].stage = "threw"
    /\ runInfo' = [runInfo EXCEPT !.pendingError = op["orchestrator"].error]
    /\ op' = [op EXCEPT !["orchestrator"] = IdleOp]
    /\ orchPc' = "failing"
    /\ UNCHANGED <<redis, redisStore, inMemoryStore, context, hasSubscriber, nextSession,
                   written, clientCalls, funcVars, callVars, busVars, state, taskPc, taskAttempt, taskResult,
                   taskIdx, taskOut>>

(* Lines 143-144: setRiskFactors returned; calculateBankabilityScore.      *)
Calculate(throws) ==
    /\ orchPc = "storing"
    /\ op["orchestrator"].stage = "returned"
    /\ op' = [op EXCEPT !["orchestrator"] = IdleOp]
    /\ runInfo' = [runInfo EXCEPT !.stagesRun = Append(@, "calculate"),
                                  !.pendingError = IF throws THEN "CalculateError" ELSE @]
    /\ orchPc' = IF throws THEN "failing" ELSE "roadmap"
    /\ UNCHANGED <<redis, redisStore, inMemoryStore, context, hasSubscriber, nextSession,
                   written, clientCalls, funcVars, callVars, busVars, state, taskPc, taskAttempt, taskResult,
                   taskIdx, taskOut>>

(* The pair executeWorkflow returns, line 150.                             *)
WorkflowResult(riskFactors) ==
    [kind |-> "computed", score |-> [from |-> riskFactors],
     roadmap |-> [from |-> riskFactors]]

(* Lines 147-150: generateRemediationRoadmap.                              *)
Roadmap(throws) ==
    /\ orchPc = "roadmap"
    /\ runInfo' = [runInfo EXCEPT !.stagesRun = Append(@, "roadmap"),
                                  !.pendingError = IF throws THEN "RoadmapError" ELSE @]
    /\ orchPc' = IF throws THEN "failing" ELSE "workflow_done"
    /\ UNCHANGED <<storeVars, clientCalls, funcVars, callVars, busVars, state, taskPc, taskAttempt,
                   taskResult, taskIdx, taskOut>>

(* analyze, lines 106-109.                                                 *)
AnalyzeComplete ==
    /\ orchPc = "workflow_done"
    /\ state' = [state EXCEPT !.status = "complete"]
    /\ runInfo' = [runInfo EXCEPT !.result =
                      WorkflowResult([kind |-> "synthesized",
                                      insights |-> runInfo.synthInput])]
    /\ orchPc' = "returned"
    /\ UNCHANGED <<storeVars, clientCalls, funcVars, callVars, busVars, taskPc, taskAttempt, taskResult,
                   taskIdx, taskOut>>

(* A variant of the catch block that records the run as complete.          *)
AnalyzeCatchMarksComplete ==
    /\ orchPc = "failing"
    /\ state' = [state EXCEPT !.status = "complete",
                              !.errors = Append(@, ErrorOf("orchestrator",
                                                           runInfo.pendingError))]
    /\ runInfo' = [runInfo EXCEPT !.thrown = runInfo.pendingError]
    /\ orchPc' = "threw"
    /\ UNCHANGED <<storeVars, clientCalls, funcVars, callVars, busVars, taskPc, taskAttempt, taskResult,
                   taskIdx, taskOut>>

(* A variant of the catch block that swallows the error and returns what   *)
(* the workflow had so far.                                                *)
AnalyzeCatchSwallows ==
    /\ orchPc = "failing"
    /\ state' = [state EXCEPT !.status = "error",
                              !.errors = Append(@, ErrorOf("orchestrator",
                                                           runInfo.pendingError))]
    /\ runInfo' = [runInfo EXCEPT !.result = [kind |-> "partial"]]
    /\ orchPc' = "returned"
    /\ UNCHANGED <<storeVars, clientCalls, funcVars, callVars, busVars, taskPc, taskAttempt, taskResult,
                   taskIdx, taskOut>>

(* analyze, lines 110-114.                                                 *)
AnalyzeCatch ==
    /\ orchPc = "failing"
    /\ state' = [state EXCEPT !.status = "error",
                              !.errors = Append(@, ErrorOf("orchestrator",
                                                           runInfo.pendingError))]
    /\ runInfo' = [runInfo EXCEPT !.thrown = runInfo.pendingError]
    /\ orchPc' = "threw"
    /\ UNCHANGED <<storeVars, clientCalls, funcVars, callVars, busVars, taskPc, taskAttempt, taskResult,
                   taskIdx, taskOut>>


(* ================= Spec: one analyze() on a prepared store ============= *)
(* The store as a client leaves it before it calls analyze(): nothing      *)
(* created, or session 1 created and loaded with evidence (as              *)
(* tests/scripts/simple-eval.ts lines 35-72 does), every call having       *)
(* persisted with the cache in the state it is in now.                     *)
Session1 == NewContext(1)
PreparedContexts ==
    { NullContext,
      Session1,
      [Session1 EXCEPT !.documents = <<DocPLNeg>>],
      [Session1 EXCEPT !.documents = <<DocPLPos>>, !.plaid = PlaidLive,
                       !.agentInsights[AgentIds[1]] = <<Insight(AgentIds[1], 0, 0)>>],
      [Session1 EXCEPT !.stripe = StripeLive],
      [Session1 EXCEPT !.agentInsights[AgentIds[1]] = <<Insight(AgentIds[1], 0, 0)>>] }

InitPrepared ==
    /\ redis \in BOOLEAN
    /\ hasSubscriber \in BOOLEAN
    /\ context \in PreparedContexts
    /\ redisStore = [s \in SessionIds |->
                       IF redis /\ s = context.sessionId THEN Serialize(context) ELSE NoData]
    /\ inMemoryStore = [s \in SessionIds |->
                       IF ~redis /\ s = context.sessionId THEN Serialize(context) ELSE NoData]
    /\ written = [s \in SessionIds |->
                       IF s = context.sessionId THEN Content(context) ELSE NoData]
    /\ nextSession = context.sessionId + 1
    /\ op = [c \in Callers |-> IdleOp]
    /\ clientCalls = 0
    /\ InitBus
    /\ InitOrch
    /\ InitFunc

AnalysisMalformed == \E a \in Agents : LLMMalformed(a)
AnalysisBadShape == \E a \in Agents : LLMBadShape(a)
AnalysisConforming == \E a \in Agents, impacts \in ImpactLists : LLMConforming(a, impacts)
TaskContinues == \E a \in Agents : TaskContinue(a)
TaskCatches == \E a \in Agents : TaskCatch(a)
SynthesizeStage == \E throws \in BOOLEAN : Synthesize(throws)
CalculateStage == \E throws \in BOOLEAN : Calculate(throws)
RoadmapStage == \E throws \in BOOLEAN : Roadmap(throws)

Next ==
    \/ AnalyzeBegin
    \/ AnalyzeCreated
    \/ FanOut
    \/ AnalysisMalformed
    \/ AnalysisBadShape
    \/ AnalysisConforming
    \/ TaskContinues
    \/ TaskCatches
    \/ FanIn
    \/ SynthesizeStage
    \/ StoreRiskFactorsFailed
    \/ CalculateStage
    \/ RoadmapStage
    \/ AnalyzeComplete
    \/ AnalyzeCatch
    \/ CacheSetSettles
    \/ CachePublishSettles
    \/ StoreAfterPersist
    \/ CacheConnectionError

Spec == InitPrepared /\ [][Next]_vars


(* ========================= Properties under Spec ======================= *)
Last(seq) == seq[Len(seq)]

(* The context the run works on once its session is settled.               *)
RunStartContext ==
    IF runInfo.reused THEN runInfo.startContext ELSE NewContext(runInfo.sessionId)

StartInsights(a) == RunStartContext.agentInsights[a]

(* C1: whenever the pre-filter matches the session context at the start of *)
(* analyze, no task runs, no synthesis stage runs, and the run returns the *)
(* pre-filter's canned score and roadmap.                                  *)
C1_PreFilterShortCircuits ==
    (orchPc # "idle" /\ checkObviousCases(RunStartContext) # "none") =>
        /\ runInfo.executed = {}
        /\ runInfo.stagesRun = <<>>
        /\ orchPc = "returned" =>
              runInfo.result = ObviousResult(checkObviousCases(RunStartContext))

(* C2: a task whose execute() threw ends in status error with its error    *)
(* recorded and contributes no insights; a task whose execute() returned   *)
(* and whose appends all returned ends complete and contributes its        *)
(* insights; no task failure fails the run: the run fails only inside a    *)
(* synthesis stage, and a run that returns is complete with a score and a  *)
(* roadmap.                                                                *)
C2_TaskFailuresIsolated ==
    /\ \A a \in Agents : taskPc[a] = "done" =>
          /\ a \in runInfo.execThrew =>
                /\ state.agentStatuses[a] = "error"
                /\ taskOut[a] = <<>>
                /\ \E i \in DOMAIN state.errors :
                      state.errors[i].task = a
                      /\ state.errors[i].error \in {"AnalysisUnparseable",
                                                    "ResponseShapeError"}
          /\ a \notin (runInfo.execThrew \cup runInfo.appendThrew) =>
                /\ state.agentStatuses[a] = "complete"
                /\ taskOut[a] = taskResult[a]
    /\ (orchPc \in {"failing", "threw"} \/ state.status = "error") =>
          /\ runInfo.stagesRun # <<>>
          /\ runInfo.pendingError \in {"SynthesizeError", "SubscriberError",
                                       "CalculateError", "RoadmapError"}
    /\ orchPc = "returned" =>
          /\ state.status = "complete"
          /\ runInfo.result.kind = "computed"

C2_Witness ==
    /\ orchPc = "returned"
    /\ state.status = "complete"
    /\ \E a, b \in Agents :
          /\ a \in runInfo.execThrew
          /\ state.agentStatuses[a] = "error"
          /\ state.agentStatuses[b] = "complete"
          /\ taskOut[b] # <<>>

(* C3: the run is in status synthesizing, complete or error, and any       *)
(* synthesis stage has run, only when every task has finished (its status  *)
(* complete or error); while some task has not finished the run stays in   *)
(* status analyzing with no synthesis stage run.                           *)
C3_FanInBarrier ==
    /\ (state.status \in {"synthesizing", "complete", "error"}
        \/ runInfo.stagesRun # <<>>) =>
          \A a \in Agents : /\ taskPc[a] = "done"
                            /\ state.agentStatuses[a] \in {"complete", "error"}
    /\ (orchPc \notin {"idle", "creating", "initialized"}
        /\ \E a \in Agents : taskPc[a] # "done") =>
          /\ state.status = "analyzing"
          /\ orchPc = "awaiting_tasks"
          /\ runInfo.stagesRun = <<>>

C3_Witness ==
    /\ state.status = "analyzing"
    /\ \E a, b \in Agents :
          /\ taskPc[a] = "done"
          /\ state.agentStatuses[a] = "complete"
          /\ taskPc[b] = "llm"
          /\ state.agentStatuses[b] = "running"

(* C4: the run's status only moves initializing -> analyzing ->            *)
(* synthesizing -> complete, or from one of the first three to error;      *)
(* complete and error are never left; complete is entered only after the   *)
(* Remediation Engine has returned.                                        *)
StatusMoves ==
    { <<"none", "initializing">>, <<"initializing", "analyzing">>,
      <<"analyzing", "synthesizing">>, <<"synthesizing", "complete">>,
      <<"initializing", "error">>, <<"analyzing", "error">>,
      <<"synthesizing", "error">> }

StatusStep ==
    state'.status # state.status =>
        /\ <<state.status, state'.status>> \in StatusMoves
        /\ state'.status = "complete" =>
              /\ runInfo.stagesRun # <<>>
              /\ Last(runInfo.stagesRun) = "roadmap"
              /\ runInfo.pendingError = "none"

C4_StatusForwardOnly == [][StatusStep]_vars

C4_Witness ==
    /\ state.status = "complete"
    /\ runInfo.stagesRun = <<"synthesize", "setRiskFactors", "calculate", "roadmap">>

(* C5: when a synthesis stage (synthesize, setRiskFactors, calculate,      *)
(* roadmap) throws, no later stage runs, the run's status becomes error,   *)
(* the error is appended to the run's errors and rethrown, and no result   *)
(* is returned; a result is only ever the full pair of score and roadmap.  *)
StageOf(error) ==
    CASE error = "SynthesizeError" -> "synthesize"
      [] error = "CalculateError" -> "calculate"
      [] error = "RoadmapError" -> "roadmap"
      [] OTHER -> "setRiskFactors"

C5_SynthesisFailureFailsRun ==
    /\ runInfo.pendingError # "none" =>
          /\ orchPc \in {"failing", "threw"}
          /\ runInfo.stagesRun # <<>>
          /\ Last(runInfo.stagesRun) = StageOf(runInfo.pendingError)
          /\ runInfo.result.kind = "none"
    /\ orchPc = "threw" =>
          /\ runInfo.thrown # "none"
          /\ runInfo.thrown = runInfo.pendingError
          /\ state.status = "error"
          /\ Last(state.errors) = ErrorOf("orchestrator", runInfo.thrown)
    /\ runInfo.result.kind # "none" =>
          /\ runInfo.result.kind = "computed"
          /\ orchPc = "returned"
          /\ runInfo.thrown = "none"
          /\ runInfo.stagesRun = <<"synthesize", "setRiskFactors", "calculate", "roadmap">>

C5_Witness ==
    /\ orchPc = "threw"
    /\ runInfo.thrown = "SubscriberError"
    /\ runInfo.stagesRun = <<"synthesize", "setRiskFactors">>
    /\ state.status = "error"

(* C6: analyze() keeps the existing session exactly when it is non-empty   *)
(* (it holds at least one document, snapshot or insight): the run then     *)
(* works on that session and its evidence is still in the context;         *)
(* otherwise a new session is created.                                     *)
NonEmptySession(ctx) ==
    /\ ctx.sessionId # 0
    /\ \/ Len(ctx.documents) > 0
       \/ ctx.stripe.present
       \/ ctx.plaid.present
       \/ \E a \in Agents : Len(ctx.agentInsights[a]) > 0

C6_ReusesNonEmptySession ==
    orchPc # "idle" =>
        IF NonEmptySession(runInfo.startContext)
        THEN /\ runInfo.reused
             /\ context.sessionId = runInfo.startContext.sessionId
             /\ context.documents = runInfo.startContext.documents
             /\ context.stripe = runInfo.startContext.stripe
             /\ context.plaid = runInfo.startContext.plaid
        ELSE ~runInfo.reused

(* C7: under every interleaving of the tasks at their suspension points,   *)
(* each task's insight log in the context is what the session held for it  *)
(* at the start followed by exactly the insights appended for that task so *)
(* far, each once, in the order appended.                                  *)
C7_InsightLogAppendOnly ==
    orchPc \notin {"idle", "creating"} =>
        \A a \in Agents :
            context.agentInsights[a] =
                StartInsights(a) \o SubSeq(taskResult[a], 1, taskIdx[a])

C7_Witness ==
    /\ redis
    /\ \A a \in Agents :
          /\ taskPc[a] = "persisting"
          /\ op[a].stage = "set_pending"
          /\ taskIdx[a] = MaxInsights
          /\ Len(context.agentInsights[a]) >= MaxInsights

(* The insights of task a among those handed to the Risk Synthesizer.      *)
HandedOver(a) == SelectSeq(runInfo.synthInput, LAMBDA i : i.agentId = a)

(* The insights of task a the session gained during the run.               *)
PersistedInRun(a) ==
    SubSeq(context.agentInsights[a], Len(StartInsights(a)) + 1,
           Len(context.agentInsights[a]))

(* Every insight handed to the Risk Synthesizer is in the session.         *)
HandedOverIsPersisted ==
    orchPc \notin {"idle", "creating", "initialized", "awaiting_tasks"} =>
        \A a \in Agents :
            \A k \in DOMAIN HandedOver(a) :
                \E j \in DOMAIN PersistedInRun(a) : PersistedInRun(a)[j] = HandedOver(a)[k]

(* C27: the insights handed to the Risk Synthesizer are exactly the        *)
(* insights persisted to the store during the run (an insight is handed    *)
(* over if and only if it was persisted), also when an append to the store *)
(* fails part-way, in its persistence or in a subscriber callback.         *)
C27_SynthInputIsPersisted ==
    orchPc \notin {"idle", "creating", "initialized", "awaiting_tasks"} =>
        \A a \in Agents : HandedOver(a) = PersistedInRun(a)


(* ====================== Properties under SpecStore ===================== *)
(* What loadSession(sid) hands back when the cache read goes as `ok`.      *)
Loaded(sid, ok) == ParseSession(GetValue(sid, redis, ok))

(* C8: once a mutating store call has returned, every later read of the    *)
(* session observes the value just written: getContext, and loadSession by *)
(* the session's id whether the cache read succeeds or fails.              *)
C8_ReadAfterWrite ==
    op["client"].stage = "idle" =>
        /\ context.sessionId # 0 => Content(context) = written[context.sessionId]
        /\ \A sid \in 1..(nextSession - 1) : \A ok \in BOOLEAN :
              Content(Loaded(sid, ok)) = written[sid]

(* C9: no store operation throws because the cache failed; a mutating      *)
(* operation whose cache write failed has written the serialized session   *)
(* to the in-process map, the context holds the mutation, and the          *)
(* operation returns (unless a subscriber callback throws).                *)
C9_CacheFailureNeverSurfaced ==
    \A c \in Callers :
        /\ op[c].error \in {"none", "NoActiveSession", "SubscriberError"}
        /\ (op[c].stage = "threw" /\ op[c].error = "SubscriberError") => hasSubscriber
        /\ (op[c].name \in MutatingOps /\ op[c].cacheFailed
            /\ op[c].stage \in {"after_persist", "publish_pending", "returned", "threw"}) =>
              /\ inMemoryStore[op[c].sid] = op[c].val
              /\ context.sessionId = op[c].sid
              /\ Serialize(context) = op[c].val
        /\ (op[c].pubFailed /\ ~hasSubscriber) => op[c].stage = "returned"

C9_Witness ==
    /\ op["client"].name = "addAgentInsight"
    /\ op["client"].stage = "returned"
    /\ op["client"].cacheFailed
    /\ op["client"].pubFailed
    /\ inMemoryStore[op["client"].sid] = op["client"].val
    /\ redisStore[op["client"].sid] # op["client"].val

(* ======================= Properties under SpecBus ====================== *)
Count(subs, a) == Len(SelectSeq(subs, LAMBDA l : l = a))

Addressed(msg, a) == msg.to = a \/ (msg.to = "broadcast" /\ msg.from # a)

InboxRule ==
    \A a \in Agents : \A i \in 1..Len(inbox[a]) : Addressed(inbox[a][i], a)

DeliveryStep ==
    IF messageLog' # messageLog
    THEN LET msg == Last(messageLog')
         IN  \A a \in Agents :
                inbox'[a] = inbox[a] \o
                    [k \in 1..(IF Addressed(msg, a) THEN Count(listeners, a) ELSE 0) |-> msg]
    ELSE inbox' = inbox

(* C10: a task's handler only ever receives messages addressed to that     *)
(* task or broadcasts of other tasks; each send delivers a message         *)
(* addressed to a task to that task's subscribed handler only, and a       *)
(* broadcast to the handler of every subscribed task except the sender.    *)
C10_BusDeliveryRule == []InboxRule /\ [][DeliveryStep]_vars

C10_Witness ==
    \E a, b \in Agents :
        /\ a # b
        /\ Count(listeners, a) > 0
        /\ Count(listeners, b) > 0
        /\ inbox[a] = <<>>
        /\ Len(messageLog) = 1
        /\ messageLog[1].from = a
        /\ messageLog[1].to = "broadcast"
        /\ inbox[b] # <<>>


(* ===================== Properties under SpecRequest ==================== *)
(* C11: a request whose timer fires fails with RequestTimeout and has left *)
(* the pending set, and a request fails with RequestTimeout only that way; *)
(* a request that was answered while pending is resolved with a response   *)
(* carrying its own correlation id and its timer is cleared, so the timer  *)
(* never rejects it afterwards; an entry is pending exactly while its      *)
(* timer is armed and its promise unsettled.                               *)
C11_RequestTimeoutOrResponse ==
    \A id \in DOMAIN requests :
        /\ requests[id].timer = "fired" =>
              /\ requests[id].outcome = "RequestTimeout"
              /\ id \notin pendingRequests
        /\ requests[id].outcome = "RequestTimeout" => requests[id].timer = "fired"
        /\ requests[id].outcome = "resolved" =>
              /\ requests[id].response = id
              /\ requests[id].timer = "cleared"
              /\ id \notin pendingRequests
        /\ id \in pendingRequests <=>
              (requests[id].timer = "armed" /\ requests[id].outcome = "pending")

C11_Witness ==
    \E i, j \in DOMAIN requests :
        /\ requests[i].outcome = "RequestTimeout"
        /\ requests[i].timer = "fired"
        /\ requests[j].outcome = "resolved"
        /\ requests[j].response = j
        /\ pendingRequests = {}

(* C12: a respond call for a correlation id whose request has timed out    *)
(* changes no bus state: no request is settled, no message is appended to  *)
(* the log and no handler is invoked.                                      *)
LateRespondStep ==
    \A id \in DOMAIN requests : \A from \in Agents :
        (requests[id].outcome = "RequestTimeout" /\ Respond(id, from)) =>
            UNCHANGED <<listeners, messageLog, inbox, pendingRequests, requests>>

C12_LateRespondIsNoOp == [][LateRespondStep]_vars

(* C13: clear() rejects every request pending at the call with BusCleared  *)
(* and leaves the pending set and the message log empty; a request         *)
(* rejected by clear has its timer cleared and stays rejected, so no later *)
(* respond resolves it and its timeout never rejects it.                   *)
ClearStep ==
    /\ Clear =>
          /\ pendingRequests' = {}
          /\ messageLog' = <<>>
          /\ \A id \in pendingRequests : requests'[id].outcome = "BusCleared"
    /\ \A id \in DOMAIN requests :
          requests[id].outcome = "BusCleared" =>
              /\ requests'[id].outcome = "BusCleared"
              /\ requests'[id].timer = "cleared"
              /\ requests'[id].response = 0
              /\ id \notin pendingRequests'

ClearedRule ==
    \A id \in DOMAIN requests :
        requests[id].outcome = "BusCleared" =>
            /\ requests[id].timer = "cleared"
            /\ requests[id].response = 0
            /\ id \notin pendingRequests

C13_ClearRejectsPending == []ClearedRule /\ [][ClearStep]_vars

C13_Witness ==
    /\ Len(requests) = MaxRequests
    /\ \A id \in DOMAIN requests : requests[id].outcome = "BusCleared"
    /\ pendingRequests = {}
    /\ messageLog # <<>>
    /\ messageLog[1].type = "data_response"

(* ================== Properties under SpecRequestLive =================== *)
Settled(id) == requests[id].outcome # "pending"

(* A settled request has no pending entry and no live timer.               *)
SettledRule ==
    \A id \in DOMAIN requests :
        /\ requests[id].outcome \in {"pending", "resolved", "RequestTimeout", "BusCleared"}
        /\ Settled(id) => (id \notin pendingRequests /\ requests[id].timer # "armed")

(* A request keeps the outcome of its first settlement, and each way of    *)
(* settling is the work of its own operation.                              *)
SettleOnceStep ==
    \A id \in DOMAIN requests :
        /\ Settled(id) => requests'[id].outcome = requests[id].outcome
        /\ (~Settled(id) /\ requests'[id].outcome = "resolved") =>
              (\E from \in Agents : Respond(id, from))
        /\ (~Settled(id) /\ requests'[id].outcome = "RequestTimeout") => Timeout(id)
        /\ (~Settled(id) /\ requests'[id].outcome = "BusCleared") => Clear

(* C30: every request is settled exactly once, by the matching respond,    *)
(* by its timeout or by clear, whichever comes first; once settled it has  *)
(* no entry in the pending set and no live timer; and every request is     *)
(* eventually settled, by its timeout when no respond or clear came first. *)
C30_SettledExactlyOnce ==
    /\ []SettledRule
    /\ [][SettleOnceStep]_vars
    /\ \A id \in 1..MaxRequests :
          (id \in DOMAIN requests) ~> (id \in DOMAIN requests /\ Settled(id))

C30_Witness ==
    /\ Len(requests) = MaxRequests
    /\ requests[1].outcome = "RequestTimeout"
    /\ requests[2].outcome = "resolved"
    /\ requests[1].timer = "fired"
    /\ messageLog # <<>>


(* ================== Properties under Spec: the tasks =================== *)
(* C14: within one execute the analysis call is left only with a           *)
(* conforming response, whose insights the task returns, or by failing     *)
(* with AnalysisUnparseable on the third consecutive malformed response;   *)
(* an unparseable response and one that violates the response shape both   *)
(* count as malformed and cause a retry; at most 3 calls are made.         *)
RetryStep ==
    \A a \in Agents :
        /\ taskAttempt[a] < MaxAttempts
        /\ (taskPc[a] = "llm" /\ taskPc'[a] # "llm") =>
              \/ /\ taskPc'[a] = "exec_returned"
                 /\ a \notin runInfo'.execThrew
              \/ /\ taskPc'[a] = "threw_unparseable"
                 /\ ExecuteError(taskPc'[a]) = "AnalysisUnparseable"
                 /\ taskAttempt[a] = MaxAttempts - 1

C14_RetryOnMalformed == [][RetryStep]_vars

(* C15: when the context a task is given holds no usable evidence (no      *)
(* document, no Stripe snapshot with mrr or customers, no Plaid snapshot   *)
(* with accounts or transactions), execute returns exactly one insight,    *)
(* with impact 0, never starts the analysis call, does not throw and       *)
(* sends nothing on the bus.                                               *)
NoUsableEvidence(ctx) ==
    /\ Len(ctx.documents) = 0
    /\ ~(ctx.stripe.present /\ (ctx.stripe.mrr > 0 \/ ctx.stripe.customerCount > 0))
    /\ ~(ctx.plaid.present /\ (ctx.plaid.accounts > 0 \/ ctx.plaid.transactions))

C15_InsufficientDataInsight ==
    (runInfo.executed # {} /\ NoUsableEvidence(RunStartContext)) =>
        /\ messageLog = <<>>
        /\ runInfo.execThrew = {}
        /\ \A a \in Agents :
              /\ taskPc[a] \in {"exec_returned", "persisting", "done"}
              /\ Len(taskResult[a]) = 1
              /\ taskResult[a][1].agentId = a
              /\ taskResult[a][1].impact = 0

C15_Witness ==
    /\ NoUsableEvidence(RunStartContext)
    /\ orchPc = "returned"
    /\ \A a \in Agents :
          /\ state.agentStatuses[a] = "complete"
          /\ Len(taskOut[a]) = 1
          /\ taskOut[a][1].impact = 0


(* ============================ Score Calculator ========================= *)
(* Numbers: a factor score is an integer of 0..100; a weight is held in    *)
(* hundredths (0.30 is 30) and a penalty multiplier in twentieths (0.8 is  *)
(* 16, 0.7 is 14, 0.85 is 17), so that every product below is an exact     *)
(* integer.  The code computes in IEEE-754 doubles, whose products differ  *)
(* from the exact ones by less than one part in 2^50: the rounded score    *)
(* can differ from the exactly computed one only when the exact product is *)
(* a tie n + 1/2 and the double lies below it.  Whether it does is the     *)
(* argument doubleBelow of the functions below.                            *)
(* A RiskFactorMap with the weights synthesizeRiskFactors gives.           *)
RiskFactorMapOf(s, c, r, k) ==
    [serviceability |-> Factor(s, 30), concentration |-> Factor(c, 25),
     retention |-> Factor(r, 25), compliance |-> Factor(k, 20)]

(* rawScore, lines 24-28, in hundredths.                                   *)
rawScore(riskFactors) ==
    riskFactors.serviceability.score * riskFactors.serviceability.weight
    + riskFactors.concentration.score * riskFactors.concentration.weight
    + riskFactors.retention.score * riskFactors.retention.weight
    + riskFactors.compliance.score * riskFactors.compliance.weight

Penalty(reason, multiplier, impactPoints) ==
    [reason |-> reason, multiplier |-> multiplier, impactPoints |-> impactPoints]

(* A variant of calculatePenalties without the concentration rule.         *)
calculatePenaltiesNoConcentration(riskFactors) ==
    (IF riskFactors.compliance.score < 40
     THEN <<Penalty("Critical compliance gaps detected", 16, 4)>> ELSE <<>>)
    \o (IF riskFactors.serviceability.score < 30
        THEN <<Penalty("Cash flow insufficient to service obligations", 14, 9)>>
        ELSE <<>>)

(* calculatePenalties, lines 56-90.  impactPoints: Math.round of           *)
(* (1 - 0.8) * 100 * 0.2, (1 - 0.7) * 100 * 0.3 and (1 - 0.85) * 100 * 0.25. *)
calculatePenalties(riskFactors) ==
    (IF riskFactors.compliance.score < 40
     THEN <<Penalty("Critical compliance gaps detected", 16, 4)>> ELSE <<>>)
    \o (IF riskFactors.serviceability.score < 30
        THEN <<Penalty("Cash flow insufficient to service obligations", 14, 9)>>
        ELSE <<>>)
    \o (IF riskFactors.concentration.score < 25
        THEN <<Penalty("Extreme revenue concentration risk", 17, 4)>> ELSE <<>>)

(* penalties.reduce((mult, p) => mult * p.multiplier, 1), line 32, as the  *)
(* fraction num / den.                                                     *)
RECURSIVE penaltyMultiplier(_)
penaltyMultiplier(penalties) ==
    IF penalties = <<>> THEN [num |-> 1, den |-> 1]
    ELSE LET rest == penaltyMultiplier(SubSeq(penalties, 1, Len(penalties) - 1))
         IN  [num |-> rest.num * penalties[Len(penalties)].multiplier,
              den |-> rest.den * 20]

(* Math.round(Math.max(0, Math.min(100, x))), line 34, for x = num / den:  *)
(* the nearest integer, a tie going up unless the double lies below it.    *)
RoundClamped(num, den, doubleBelow) ==
    LET clamped == IF num > 100 * den THEN 100 * den ELSE IF num < 0 THEN 0 ELSE num
        halfUp == (2 * clamped + den) \div (2 * den)
        tie == (2 * clamped) % den = 0 /\ ((2 * clamped) \div den) % 2 = 1
    IN  IF tie /\ doubleBelow THEN halfUp - 1 ELSE halfUp

(* A variant of scoreToGrade with exclusive lower bounds.                  *)
scoreToGradeExclusive(score) ==
    IF score > 80 THEN "A"
    ELSE IF score > 65 THEN "B"
    ELSE IF score > 50 THEN "C"
    ELSE IF score > 35 THEN "D"
    ELSE "F"

(* scoreToGrade, lines 92-98.                                              *)
scoreToGrade(score) ==
    IF score >= 80 THEN "A"
    ELSE IF score >= 65 THEN "B"
    ELSE IF score >= 50 THEN "C"
    ELSE IF score >= 35 THEN "D"
    ELSE "F"

(* calculateBankabilityScore, lines 19-54.                                 *)
calculateBankabilityScore(riskFactors, doubleBelow) ==
    LET penalties == calculatePenalties(riskFactors)
        multiplier == penaltyMultiplier(penalties)
        finalScore == RoundClamped(rawScore(riskFactors) * multiplier.num,
                                   100 * multiplier.den, doubleBelow)
    IN  [kind |-> "score", score |-> finalScore, grade |-> scoreToGrade(finalScore),
         riskFactors |-> riskFactors, penalties |-> penalties]

(* ============ SpecScore: the calculator called on its own ============== *)
ScoreValues == {0, 20, 24, 25, 29, 30, 35, 39, 40, 60, 80, 100}

ScoreArgs ==
    {[riskFactors |-> RiskFactorMapOf(s, c, r, k), doubleBelow |-> b] :
        s \in ScoreValues, c \in ScoreValues, r \in ScoreValues, k \in ScoreValues,
        b \in BOOLEAN}

InitScore ==
    /\ InitStore
    /\ clientCalls = 0
    /\ InitBus
    /\ InitOrch
    /\ funcArgs \in ScoreArgs
    /\ funcResult = NotCalled

CalculateScore ==
    /\ funcResult = NotCalled
    /\ funcResult' = calculateBankabilityScore(funcArgs.riskFactors, funcArgs.doubleBelow)
    /\ UNCHANGED <<storeVars, clientCalls, busVars, orchVars, callVars, funcArgs>>

NextScore == CalculateScore

SpecScore == InitScore /\ [][NextScore]_vars

(* ===================== Properties under SpecScore ====================== *)
(* The multipliers the rules name, in twentieths, each rule on its own.    *)
RuleMultiplier(applies, twentieths) == IF applies THEN twentieths ELSE 20

(* Twice the exact product raw * multipliers, over TwiceDen.               *)
TwiceExact(riskFactors) ==
    2 * rawScore(riskFactors)
      * RuleMultiplier(riskFactors.compliance.score < 40, 16)
      * RuleMultiplier(riskFactors.serviceability.score < 30, 14)
      * RuleMultiplier(riskFactors.concentration.score < 25, 17)

TwiceDen == 2 * 100 * 20 * 20 * 20

(* n = round(clamp(x, 0, 100)) for x = TwiceExact / TwiceDen: n is in      *)
(* 0..100 and n - 1/2 <= clamp(x) < n + 1/2.                               *)
IsRoundOfClamp(n, riskFactors) ==
    LET x2 == IF TwiceExact(riskFactors) > 100 * TwiceDen THEN 100 * TwiceDen
              ELSE TwiceExact(riskFactors)
    IN  /\ n \in 0..100
        /\ (2 * n - 1) * TwiceDen <= 2 * x2
        /\ 2 * x2 < (2 * n + 1) * TwiceDen

(* C16: for every RiskFactorMap with factor scores in 0..100 and the fixed *)
(* weights, calculate returns an integer score in 0..100 equal to          *)
(* round(clamp(raw * product of the applied multipliers, 0, 100)), the     *)
(* applied multipliers being exactly 0.8 iff compliance < 40, 0.7 iff      *)
(* serviceability < 30 and 0.85 iff concentration < 25.                    *)
C16_ScoreIsRoundedClampedProduct ==
    funcResult # NotCalled =>
        /\ IsRoundOfClamp(funcResult.score, funcArgs.riskFactors)
        /\ \A m \in {14, 16, 17} :
              (\E i \in DOMAIN funcResult.penalties : funcResult.penalties[i].multiplier = m)
              <=> \/ m = 16 /\ funcArgs.riskFactors.compliance.score < 40
                  \/ m = 14 /\ funcArgs.riskFactors.serviceability.score < 30
                  \/ m = 17 /\ funcArgs.riskFactors.concentration.score < 25

(* The scenario of C17: raw = 34.5.                                        *)
PenaltyScenario == RiskFactorMapOf(25, 20, 60, 35)

(* C17 as stated: on the scenario calculate applies the serviceability and *)
(* compliance penalties and returns round(34.5 * 0.7 * 0.8) = 19.          *)
C17_TwoPenaltiesNineteen ==
    (funcResult # NotCalled /\ funcArgs.riskFactors = PenaltyScenario) =>
        /\ funcResult.score = 19
        /\ {funcResult.penalties[i].multiplier : i \in DOMAIN funcResult.penalties}
              = {14, 16}

(* C17 amended: on the scenario (raw = 34.5) calculate applies the         *)
(* compliance (35 < 40), serviceability (25 < 30) and concentration        *)
(* (20 < 25) penalties, in that order, and returns                         *)
(* round(34.5 * 0.8 * 0.7 * 0.85) = round(16.422) = 16, grade F.           *)
C17_ThreePenaltiesSixteen ==
    (funcResult # NotCalled /\ funcArgs.riskFactors = PenaltyScenario) =>
        /\ rawScore(funcArgs.riskFactors) = 3450
        /\ funcResult.score = 16
        /\ funcResult.grade = "F"
        /\ [i \in DOMAIN funcResult.penalties |-> funcResult.penalties[i].multiplier]
              = <<16, 14, 17>>

C17_Witness ==
    /\ funcArgs.riskFactors = PenaltyScenario
    /\ funcResult # NotCalled
    /\ Len(funcResult.penalties) = 3

(* The grade the thresholds give a score.                                  *)
GradeRule(score, grade) ==
    /\ grade = "A" <=> score >= 80
    /\ grade = "B" <=> (65 <= score /\ score <= 79)
    /\ grade = "C" <=> (50 <= score /\ score <= 64)
    /\ grade = "D" <=> (35 <= score /\ score <= 49)
    /\ grade = "F" <=> score < 35

GradeRank(grade) ==
    CASE grade = "F" -> 0 [] grade = "D" -> 1 [] grade = "C" -> 2
      [] grade = "B" -> 3 [] grade = "A" -> 4

(* C18: the grade is a total, monotonic step function of the score 0..100  *)
(* with inclusive lower bounds (A from 80, B from 65, C from 50, D from    *)
(* 35, else F), and the grade of every calculate result is this function   *)
(* of the result's score.                                                  *)
C18_GradeStepFunction ==
    /\ \A n \in 0..100 :
          /\ scoreToGrade(n) \in {"A", "B", "C", "D", "F"}
          /\ GradeRule(n, scoreToGrade(n))
          /\ n > 0 => GradeRank(scoreToGrade(n - 1)) <= GradeRank(scoreToGrade(n))
    /\ funcResult # NotCalled =>
          /\ funcResult.score \in 0..100
          /\ GradeRule(funcResult.score, funcResult.grade)

C18_Witness ==
    /\ funcResult # NotCalled
    /\ funcResult.score = 80
    /\ funcResult.grade = "A"
    /\ funcArgs.riskFactors = RiskFactorMapOf(80, 80, 80, 80)


(* ========= SpecPreFilter: checkObviousCases called on its own ========== *)
FilterDocSet == DocSet \cup {DocPLNegZeroRev, DocPLNullYear}

FilterDocLists ==
    UNION {[1..n -> FilterDocSet] : n \in 0..MaxFilterDocs}

FilterInsights ==
    {NoInsights,
     [NoInsights EXCEPT ![AgentIds[1]] = <<Insight(AgentIds[1], 0, 0 - 40)>>]}

FilterContexts ==
    {[NewContext(1) EXCEPT !.documents = d, !.stripe = s, !.plaid = p,
                           !.agentInsights = i] :
        d \in FilterDocLists, s \in {NoStripe, StripeIdle, StripeLive},
        p \in {NoPlaid, PlaidLive}, i \in FilterInsights}

InitPreFilter ==
    /\ InitStore
    /\ clientCalls = 0
    /\ InitBus
    /\ InitOrch
    /\ funcArgs \in {[context |-> c] : c \in FilterContexts}
    /\ funcResult = NotCalled

(* One call of checkObviousCases(context): an ObviousCaseResult, null, or  *)
(* the exception a helper threw.                                           *)
CheckObviousCases ==
    /\ funcResult = NotCalled
    /\ funcResult' =
          LET caseType == checkObviousCases(funcArgs.context)
          IN  IF caseType = "TypeError" THEN [kind |-> "threw", error |-> "TypeError"]
              ELSE IF caseType = "none" THEN [kind |-> "null"]
              ELSE ObviousResult(caseType)
    /\ UNCHANGED <<storeVars, clientCalls, busVars, orchVars, callVars, funcArgs>>

NextPreFilter == CheckObviousCases

SpecPreFilter == InitPreFilter /\ [][NextPreFilter]_vars

(* ==================== Properties under SpecPreFilter =================== *)
CaseOrder == <<"no_data", "empty_documents", "all_negative", "negative_equity",
               "zero_revenue">>
CaseScores == <<0, 0, 15, 12, 5>>

(* Which of the five cases a context matches, in priority order.           *)
CaseMatches(ctx) ==
    <<isNoDataCase(ctx), isEmptyDocumentsCase(ctx), isAllNegativeCase(ctx),
      isNegativeEquityCase(ctx), isZeroRevenueCase(ctx)>>

(* The result is the first matching case with its score and grade F, or    *)
(* no result when no case matches.                                         *)
FirstMatchWins(ctx, result) ==
    LET m == CaseMatches(ctx)
    IN  IF \E k \in 1..5 : m[k]
        THEN LET first == CHOOSE k \in 1..5 : m[k] /\ \A j \in 1..(k - 1) : ~m[j]
             IN  /\ result.kind = "obvious"
                 /\ result.caseType = CaseOrder[first]
                 /\ result.score = CaseScores[first]
                 /\ result.grade = "F"
        ELSE result.kind = "null"

(* A context with zero documents and no snapshots.                         *)
NoDocsNoSnapshots(ctx) ==
    ctx.documents = <<>> /\ ~ctx.stripe.present /\ ~ctx.plaid.present

(* Where the pre-filter returns, it returns what the priority order says.  *)
PreFilterPriorityWhereDefined ==
    (funcResult # NotCalled /\ funcResult.kind # "threw") =>
        /\ FirstMatchWins(funcArgs.context, funcResult)
        /\ NoDocsNoSnapshots(funcArgs.context) =>
              /\ funcResult.kind = "obvious"
              /\ funcResult.caseType = "no_data"
              /\ funcResult.score = 0

(* C20: the pre-filter is total and deterministic: on every context it     *)
(* returns the first case that matches in the order no_data,               *)
(* empty_documents, all_negative, negative_equity, zero_revenue, with      *)
(* score 0, 0, 15, 12, 5 and grade F, and no result when none matches; a   *)
(* context with zero documents and no snapshots yields no_data with 0/F    *)
(* whatever its insights.                                                  *)
C20_PreFilterTotalFirstMatch ==
    funcResult # NotCalled =>
        /\ funcResult.kind \in {"obvious", "null"}
        /\ FirstMatchWins(funcArgs.context, funcResult)
        /\ NoDocsNoSnapshots(funcArgs.context) =>
              /\ funcResult.kind = "obvious"
              /\ funcResult.caseType = "no_data"
              /\ funcResult.score = 0
              /\ funcResult.grade = "F"


(* ====== SpecProduced: the BankabilityScores the two producers make ===== *)
(* Each of MaxProduced results is produced either by the calculator, from  *)
(* a map synthesizeRiskFactors made, or by the pre-filter, from a context. *)
(* The double product of a map is a function of the map, so that calls on  *)
(* equal maps see the same doubleBelow.                                    *)
SynthScores == {0, 5, 60}

SynthMaps ==
    {RiskFactorMapOf(s, c, r, k) :
        s \in SynthScores, c \in SynthScores, r \in SynthScores, k \in SynthScores}

ProducedContexts ==
    {[NewContext(1) EXCEPT !.documents = d, !.stripe = s] :
        d \in {<<>>} \cup {<<doc>> : doc \in FilterDocSet \ {DocPLNullYear}},
        s \in {NoStripe, StripeLive}}

ProducerInputs ==
    {[producer |-> "calculator", riskFactors |-> m] : m \in SynthMaps}
    \cup {[producer |-> "prefilter", context |-> c] : c \in ProducedContexts}

InitProduced ==
    /\ InitStore
    /\ clientCalls = 0
    /\ InitBus
    /\ InitOrch
    /\ funcArgs \in {[inputs |-> i, doubleBelow |-> b] :
                        i \in [1..MaxProduced -> ProducerInputs], b \in BOOLEAN}
    /\ funcResult = [i \in 1..MaxProduced |-> NotCalled]

ProduceScore(i) ==
    /\ funcResult[i] = NotCalled
    /\ funcArgs.inputs[i].producer = "calculator"
    /\ funcResult' = [funcResult EXCEPT ![i] =
          calculateBankabilityScore(funcArgs.inputs[i].riskFactors, funcArgs.doubleBelow)]
    /\ UNCHANGED <<storeVars, clientCalls, busVars, orchVars, callVars, funcArgs>>

ProduceObvious(i) ==
    /\ funcResult[i] = NotCalled
    /\ funcArgs.inputs[i].producer = "prefilter"
    /\ funcResult' = [funcResult EXCEPT ![i] =
          LET caseType == checkObviousCases(funcArgs.inputs[i].context)
          IN  IF caseType = "TypeError" THEN [kind |-> "threw", error |-> "TypeError"]
              ELSE IF caseType = "none" THEN [kind |-> "null"]
              ELSE ObviousResult(caseType)]
    /\ UNCHANGED <<storeVars, clientCalls, busVars, orchVars, callVars, funcArgs>>

CalculatorProduces == \E i \in 1..MaxProduced : ProduceScore(i)
PreFilterProduces == \E i \in 1..MaxProduced : ProduceObvious(i)

NextProduced ==
    \/ CalculatorProduces
    \/ PreFilterProduces

SpecProduced == InitProduced /\ [][NextProduced]_vars

(* ==================== Properties under SpecProduced ==================== *)
IsBankabilityScore(result) == result.kind \in {"score", "obvious"}

(* C19: any two BankabilityScores produced, by the Score Calculator or by  *)
(* the obvious-case pre-filter, that carry equal RiskFactorMaps have equal *)
(* score, grade and penalties.                                             *)
C19_ScoreFunctionOfRiskFactors ==
    \A i \in 1..MaxProduced, j \in 1..MaxProduced :
        (/\ IsBankabilityScore(funcResult[i])
         /\ IsBankabilityScore(funcResult[j])
         /\ funcResult[i].riskFactors = funcResult[j].riskFactors)
        => /\ funcResult[i].score = funcResult[j].score
           /\ funcResult[i].grade = funcResult[j].grade
           /\ funcResult[i].penalties = funcResult[j].penalties

C19_Witness ==
    /\ IsBankabilityScore(funcResult[1])
    /\ IsBankabilityScore(funcResult[2])
    /\ funcResult[1].riskFactors = funcResult[2].riskFactors
    /\ funcArgs.inputs[1] # funcArgs.inputs[2]
    /\ funcResult[1].kind = "obvious"
    /\ funcResult[2].kind = "obvious"


(* ========================== Remediation Engine ========================= *)
(* Numbers: the engine is given factor scores that need not be whole       *)
(* (74.9), so in this section a factor score is held in tenths of a point  *)
(* (749) and a weight in hundredths.  Math.round of a non-negative         *)
(* fraction num / den is Round(num, den); on the scores of EngineScores    *)
(* the doubles of the code round to the same integers.                     *)
FactorOrder == <<"serviceability", "concentration", "retention", "compliance">>
TargetScore == 75

Round(num, den) == (2 * num + den) \div (2 * den)

(* estimateDifficulty, lines 936-949.                                      *)
estimateDifficulty(factor, gapTenths) ==
    LET baseDifficulty == CASE factor = "serviceability" -> 3
                            [] factor = "concentration" -> 3
                            [] factor = "retention" -> 2
                            [] factor = "compliance" -> 1
        adjustedDifficulty == baseDifficulty + (IF gapTenths > 300 THEN 1 ELSE 0)
    IN  IF adjustedDifficulty <= 1 THEN "low"
        ELSE IF adjustedDifficulty <= 2 THEN "medium"
        ELSE "high"

(* estimateDays, lines 951-960: Math.round(baseDays * (gap / 50)).         *)
estimateDays(factor, gapTenths) ==
    LET baseDays == CASE factor = "serviceability" -> 90
                      [] factor = "concentration" -> 180
                      [] factor = "retention" -> 60
                      [] factor = "compliance" -> 14
    IN  Round(baseDays * gapTenths, 500)

(* getDifficultyWeight, lines 962-964.                                     *)
getDifficultyWeight(difficulty) ==
    CASE difficulty = "low" -> 1 [] difficulty = "medium" -> 2 [] difficulty = "high" -> 3

(* The ScoreDrag pushed at lines 912-922 for a factor below the target.    *)
ScoreDrag(factor, riskFactor) ==
    LET gapTenths == TargetScore * 10 - riskFactor.score
    IN  [factor |-> factor,
         currentScore |-> riskFactor.score,
         impactPoints |-> Round(gapTenths * riskFactor.weight, 1000),
         difficulty |-> estimateDifficulty(factor, gapTenths),
         estimatedDays |-> estimateDays(factor, gapTenths)]

(* if (factor.score < targetScore), line 911.                              *)
IsDrag(riskFactor) == riskFactor.score < TargetScore * 10

(* The loop of lines 910-924: the drags in the order of Object.entries.    *)
RECURSIVE DragsFrom(_, _)
DragsFrom(riskFactors, k) ==
    IF k > Len(FactorOrder) THEN <<>>
    ELSE (IF IsDrag(riskFactors[FactorOrder[k]])
          THEN <<ScoreDrag(FactorOrder[k], riskFactors[FactorOrder[k]])>>
          ELSE <<>>) \o DragsFrom(riskFactors, k + 1)

(* The ratio impactPoints / (estimatedDays * weight) of lines 928-929 is   *)
(* 0 / 0 = NaN for a drag of 0 days and 0 points, and Infinity for one of  *)
(* 0 days and some points.                                                 *)
Effort(drag) == drag.estimatedDays * getDifficultyWeight(drag.difficulty)
RatioIsNaN(drag) == Effort(drag) = 0 /\ drag.impactPoints = 0
RatioIsInfinite(drag) == Effort(drag) = 0 /\ drag.impactPoints > 0

(* The comparator of lines 927-931, bRatio - aRatio, as its sign; a NaN    *)
(* result counts as +0 in Array.prototype.sort.                            *)
CompareDrags(a, b) ==
    IF RatioIsNaN(a) \/ RatioIsNaN(b) THEN 0
    ELSE IF RatioIsInfinite(a) THEN (IF RatioIsInfinite(b) THEN 0 ELSE 0 - 1)
    ELSE IF RatioIsInfinite(b) THEN 1
    ELSE LET d == b.impactPoints * Effort(a) - a.impactPoints * Effort(b)
         IN  IF d < 0 THEN 0 - 1 ELSE IF d > 0 THEN 1 ELSE 0

Orders(n) == {p \in [1..n -> 1..n] : \A i, j \in 1..n : p[i] = p[j] => i = j}

(* A consistent comparison function, as Array.prototype.sort requires:     *)
(* being equal and being before are transitive over the elements.          *)
ConsistentComparator(drags) ==
    \A i, j, k \in 1..Len(drags) :
        /\ (CompareDrags(drags[i], drags[j]) = 0 /\ CompareDrags(drags[j], drags[k]) = 0)
              => CompareDrags(drags[i], drags[k]) = 0
        /\ (CompareDrags(drags[i], drags[j]) < 0 /\ CompareDrags(drags[j], drags[k]) <= 0)
              => CompareDrags(drags[i], drags[k]) < 0
        /\ (CompareDrags(drags[i], drags[j]) <= 0 /\ CompareDrags(drags[j], drags[k]) < 0)
              => CompareDrags(drags[i], drags[k]) < 0

(* The orders drags.sort(comparator) can leave: the stable sorted order    *)
(* when the comparator is consistent, and an implementation-defined order  *)
(* when it is not.                                                         *)
SortedDragOrders(drags) ==
    IF ConsistentComparator(drags)
    THEN {p \in Orders(Len(drags)) :
            \A i, j \in 1..Len(drags) :
                i < j => \/ CompareDrags(drags[p[i]], drags[p[j]]) < 0
                         \/ (CompareDrags(drags[p[i]], drags[p[j]]) = 0 /\ p[i] < p[j])}
    ELSE Orders(Len(drags))

(* identifyScoreDrags, lines 906-934, for the order p the sort leaves.     *)
identifyScoreDrags(riskFactors, p) ==
    LET drags == DragsFrom(riskFactors, 1)
    IN  [i \in 1..Len(drags) |-> drags[p[i]]]

(* The task templates of generateTasksForDrag, lines 1000-1139: difficulty *)
(* and estimated days of each.                                             *)
Template(difficulty, estimatedDays) ==
    [difficulty |-> difficulty, estimatedDays |-> estimatedDays]
taskTemplates(factor) ==
    CASE factor = "serviceability" ->
            <<Template("medium", 30), Template("low", 14), Template("high", 60)>>
      [] factor = "concentration" -> <<Template("high", 180), Template("high", 120)>>
      [] factor = "retention" -> <<Template("medium", 45), Template("medium", 60)>>
      [] factor = "compliance" ->
            <<Template("low", 30), Template("low", 14), Template("low", 7)>>

(* calculatePriority, lines 1162-1166.                                     *)
calculatePriority(expectedScoreGain, template) ==
    Round(expectedScoreGain * 100,
          getDifficultyWeight(template.difficulty) * template.estimatedDays)

(* generateTasksForDrag, lines 1141-1159, with the priority generateTasks  *)
(* sets at lines 985-987: each task gains Math.round(impactPoints / n).    *)
generateTasksForDrag(drag) ==
    LET templates == taskTemplates(drag.factor)
        gain == Round(drag.impactPoints, Len(templates))
    IN  [t \in 1..Len(templates) |->
            [targetFactor |-> drag.factor, n |-> t, expectedScoreGain |-> gain,
             difficulty |-> templates[t].difficulty,
             estimatedDays |-> templates[t].estimatedDays,
             priority |-> calculatePriority(gain, templates[t])]]

(* generateTasks, lines 966-990.                                           *)
RECURSIVE generateTasks(_)
generateTasks(scoreDrags) ==
    IF scoreDrags = <<>> THEN <<>>
    ELSE generateTasksForDrag(Head(scoreDrags)) \o generateTasks(Tail(scoreDrags))

(* tasks.sort((a, b) => b.priority - a.priority), line 884: a stable sort  *)
(* by decreasing priority.                                                 *)
RECURSIVE InsertTask(_, _)
InsertTask(sorted, task) ==
    IF sorted = <<>> THEN <<task>>
    ELSE IF Head(sorted).priority >= task.priority
         THEN <<Head(sorted)>> \o InsertTask(Tail(sorted), task)
         ELSE <<task>> \o sorted

RECURSIVE SortTasks(_)
SortTasks(tasks) ==
    IF tasks = <<>> THEN <<>>
    ELSE InsertTask(SortTasks(SubSeq(tasks, 1, Len(tasks) - 1)), tasks[Len(tasks)])

RECURSIVE SumGains(_)
SumGains(tasks) ==
    IF tasks = <<>> THEN 0 ELSE Head(tasks).expectedScoreGain + SumGains(Tail(tasks))

(* calculateTimeline, lines 1168-1190: the tasks and gains of each bucket. *)
Bucket(tasks) == [tasks |-> Len(tasks), scoreGain |-> SumGains(tasks)]
calculateTimeline(tasks) ==
    LET IsQuick(t) == t.estimatedDays <= 14
        IsShort(t) == t.estimatedDays > 14 /\ t.estimatedDays <= 60
        IsLong(t) == t.estimatedDays > 60
    IN  [quickWins |-> Bucket(SelectSeq(tasks, IsQuick)),
         shortTerm |-> Bucket(SelectSeq(tasks, IsShort)),
         longTerm |-> Bucket(SelectSeq(tasks, IsLong))]

(* generateRemediationRoadmap, lines 872-904.                              *)
generateRemediationRoadmap(score, riskFactors, p) ==
    LET scoreDrags == identifyScoreDrags(riskFactors, p)
        tasks == SortTasks(generateTasks(scoreDrags))
        gained == score + SumGains(tasks)
    IN  [kind |-> "roadmap", currentScore |-> score,
         projectedScore |-> IF gained > 100 THEN 100 ELSE gained,
         scoreDrags |-> scoreDrags, tasks |-> tasks,
         timeline |-> calculateTimeline(tasks)]

(* createMinimalRoadmap, lines 684-705: the canned roadmap of a case.      *)
createMinimalRoadmap(currentScore, caseType) ==
    [kind |-> "canned", currentScore |-> currentScore,
     projectedScore |-> IF currentScore + 50 > 100 THEN 100 ELSE currentScore + 50,
     scoreDrags |-> <<>>, tasks |-> getTasksForCaseType(caseType)]


(* ========= SpecRoadmap: the RemediationRoadmaps that are produced ====== *)
(* A roadmap comes from the engine, called with a score and a map, or from *)
(* the pre-filter, whose canned roadmap goes with the case's minimal map.  *)
EngineScores == {0, 200, 450, 550, 740, 749, 750, 800}
CurrentScores == {0, 40, 97}

EngineMaps ==
    {RiskFactorMapOf(s, c, r, k) :
        s \in EngineScores, c \in EngineScores, r \in EngineScores, k \in EngineScores}

RoadmapInputs ==
    {[producer |-> "engine", score |-> n, riskFactors |-> m] :
        n \in CurrentScores, m \in EngineMaps}
    \cup {[producer |-> "prefilter", context |-> c] : c \in ProducedContexts}

InitRoadmap ==
    /\ InitStore
    /\ clientCalls = 0
    /\ InitBus
    /\ InitOrch
    /\ funcArgs \in RoadmapInputs
    /\ funcResult = NotCalled

GenerateRoadmap ==
    /\ funcResult = NotCalled
    /\ funcArgs.producer = "engine"
    /\ \E p \in SortedDragOrders(DragsFrom(funcArgs.riskFactors, 1)) :
          funcResult' = generateRemediationRoadmap(funcArgs.score, funcArgs.riskFactors, p)
    /\ UNCHANGED <<storeVars, clientCalls, busVars, orchVars, callVars, funcArgs>>

(* checkObviousCases -> createObviousResult: the canned roadmap and the    *)
(* riskFactors of the canned score.                                        *)
CannedRoadmap ==
    /\ funcResult = NotCalled
    /\ funcArgs.producer = "prefilter"
    /\ funcResult' =
          LET caseType == checkObviousCases(funcArgs.context)
          IN  IF caseType = "TypeError" THEN [kind |-> "threw", error |-> "TypeError"]
              ELSE IF caseType = "none" THEN [kind |-> "null"]
              ELSE [createMinimalRoadmap(ObviousScore(caseType), caseType)
                       EXCEPT !.kind = "canned"]
    /\ UNCHANGED <<storeVars, clientCalls, busVars, orchVars, callVars, funcArgs>>

NextRoadmap ==
    \/ GenerateRoadmap
    \/ CannedRoadmap

SpecRoadmap == InitRoadmap /\ [][NextRoadmap]_vars


(* ===================== Properties under SpecRoadmap ==================== *)
Factors == {FactorOrder[k] : k \in 1..Len(FactorOrder)}
FactorIndex(factor) == CHOOSE k \in 1..Len(FactorOrder) : FactorOrder[k] = factor

DragsOf(roadmap, factor) ==
    {i \in DOMAIN roadmap.scoreDrags : roadmap.scoreDrags[i].factor = factor}

(* One drag for each factor scoring below the target, none for another;    *)
(* unit is the number of score units in a point.                           *)
DragsMatchFactors(roadmap, riskFactors, unit) ==
    \A f \in Factors :
        Cardinality(DragsOf(roadmap, f))
            = IF riskFactors[f].score < TargetScore * unit THEN 1 ELSE 0

EngineDragRule ==
    (funcResult # NotCalled /\ funcResult.kind = "roadmap") =>
        DragsMatchFactors(funcResult, funcArgs.riskFactors, 10)

(* C21: in every RemediationRoadmap produced, by the Remediation Engine or *)
(* as the canned roadmap of an obvious case, the drag list holds exactly   *)
(* one ScoreDrag for each risk factor scoring strictly below the target 75 *)
(* and none for a factor scoring 75 or more.                               *)
C21_DragIffBelowTarget ==
    /\ EngineDragRule
    /\ (funcResult # NotCalled /\ funcResult.kind = "canned") =>
          DragsMatchFactors(funcResult,
                            ObviousResult(checkObviousCases(funcArgs.context)).riskFactors, 1)

(* a comes no later than b by decreasing impact / (days * weight), ties in *)
(* factor order; a pair with a ratio 0 / 0 is left open.                   *)
InRatioOrder(a, b) ==
    \/ Effort(a) = 0
    \/ Effort(b) = 0
    \/ a.impactPoints * Effort(b) > b.impactPoints * Effort(a)
    \/ /\ a.impactPoints * Effort(b) = b.impactPoints * Effort(a)
       /\ FactorIndex(a.factor) < FactorIndex(b.factor)

DragListOrdered(drags) ==
    \A i, j \in DOMAIN drags : i < j => InRatioOrder(drags[i], drags[j])

DragOrderWhereConsistent ==
    (/\ funcResult # NotCalled
     /\ funcResult.kind = "roadmap"
     /\ ConsistentComparator(funcResult.scoreDrags)) => DragListOrdered(funcResult.scoreDrags)

(* C24: the drag list generate returns is ordered by decreasing impact     *)
(* points / (estimated days * difficulty weight), estimated days being     *)
(* round(base days * gap / 50), and drags of equal ratio keep the factor   *)
(* order serviceability, concentration, retention, compliance.             *)
C24_DragsOrderedByRatio ==
    (funcResult # NotCalled /\ funcResult.kind = "roadmap") =>
        /\ DragListOrdered(funcResult.scoreDrags)
        /\ \A i \in DOMAIN funcResult.scoreDrags :
              funcResult.scoreDrags[i].estimatedDays
                 = estimateDays(funcResult.scoreDrags[i].factor,
                                TargetScore * 10 - funcResult.scoreDrags[i].currentScore)

TasksOf(roadmap, factor) ==
    SelectSeq(roadmap.tasks, LAMBDA t : t.targetFactor = factor)

RECURSIVE SumImpact(_)
SumImpact(drags) ==
    IF drags = <<>> THEN 0 ELSE Head(drags).impactPoints + SumImpact(Tail(drags))

(* C28: the expected gains of the tasks generated from a drag sum to the   *)
(* drag's impact points, so the projected score never exceeds              *)
(* min(100, current score + the sum of the drags' impact points).          *)
C28_GainsSumToImpact ==
    (funcResult # NotCalled /\ funcResult.kind = "roadmap") =>
        /\ \A i \in DOMAIN funcResult.scoreDrags :
              SumGains(TasksOf(funcResult, funcResult.scoreDrags[i].factor))
                 = funcResult.scoreDrags[i].impactPoints
        /\ funcResult.projectedScore <= 100
        /\ funcResult.projectedScore
              <= funcResult.currentScore + SumImpact(funcResult.scoreDrags)


(* ============================ Risk Synthesizer ========================= *)
(* Numbers: component values and factor scores are fractions n / d with    *)
(* d > 0, a component weight is held in tenths, a customer's               *)
(* percentOfTotal in hundredths and a churn rate in thousandths.           *)
Frac(n, d) == [n |-> n, d |-> d]
Whole(v) == Frac(v, 1)
FracAdd(a, b) == Frac(a.n * b.d + b.n * a.d, a.d * b.d)
FracLess(a, b) == a.n * b.d < b.n * a.d

(* Math.min(100, Math.max(0, x)).                                          *)
Clamp(x) == IF x.n < 0 THEN Whole(0) ELSE IF x.n > 100 * x.d THEN Whole(100) ELSE x
MinHundred(x) == IF x.n > 100 * x.d THEN Whole(100) ELSE x
MaxZero(x) == IF x.n < 0 THEN Whole(0) ELSE x

Component(name, value, weight) == [name |-> name, value |-> value, weight |-> weight]

(* An AgentInsight as the synthesizer reads it: its category, its impact   *)
(* and its title, a title being a label and the N of an "N/100" in it.     *)
Title(label, number) == [label |-> label, number |-> number]
SynthInsight(category, title, impact) ==
    [category |-> category, title |-> title, impact |-> impact]

(* apiSnapshots.plaid.cashFlow and the fields of apiSnapshots.stripe the   *)
(* synthesizer reads; Undef where the snapshot or the field is missing.    *)
CashFlow(inflow, outflow, runwayMonths) ==
    [averageMonthlyInflow |-> inflow, averageMonthlyOutflow |-> outflow,
     runwayMonths |-> runwayMonths]
StripeMetrics(topCustomers, churnRate) ==
    [topCustomers |-> topCustomers, churnRate |-> churnRate]
NoStripeMetrics == StripeMetrics(<<>>, Undef)

SynthContext(documents, cashFlow, stripe) ==
    [documents |-> documents, cashFlow |-> cashFlow, stripe |-> stripe]

RECURSIVE SumImpacts(_)
SumImpacts(insights) ==
    IF insights = <<>> THEN 0 ELSE Head(insights).impact + SumImpacts(Tail(insights))

RECURSIVE SumWeights(_)
SumWeights(components) ==
    IF components = <<>> THEN 0 ELSE Head(components).weight + SumWeights(Tail(components))

RECURSIVE SumWeighted(_)
SumWeighted(components) ==
    IF components = <<>> THEN Whole(0)
    ELSE FracAdd(Frac(Head(components).value.n * Head(components).weight,
                      Head(components).value.d),
                 SumWeighted(Tail(components)))

(* calculateWeightedScore, lines 382-387.                                  *)
calculateWeightedScore(components) ==
    IF components = <<>> THEN Whole(50)
    ELSE LET sum == SumWeighted(components)
         IN  Frac(sum.n, sum.d * SumWeights(components))

(* extractLatestValue, lines 148-171: the latest year's field, else the    *)
(* flat field, else undefined.                                             *)
extractLatestValue(data, field) ==
    IF data.isNull THEN Undef
    ELSE IF data.years # <<>> /\ data.years[Len(data.years)][field] # Undef
         THEN data.years[Len(data.years)][field]
         ELSE data.flat[field]

OrElse(x, default) == IF x # Undef THEN Val(x) ELSE default

HasData(ctx, type) == HasDocOfType(ctx, type) /\ ~FindDoc(ctx, type).data.isNull
DataOf(ctx, type) ==
    IF HasData(ctx, type) THEN FindDoc(ctx, type).data ELSE DocData(TRUE, <<>>, NoFields)

(* The three document components of synthesizeServiceability, lines 54-103. *)
DocumentComponents(ctx) ==
    LET plData == DataOf(ctx, "profit_and_loss")
        bsData == DataOf(ctx, "balance_sheet")
        netIncome == OrElse(extractLatestValue(plData, "netIncome"), 0)
        revenue == OrElse(extractLatestValue(plData, "revenue"), 1)
        totalAssets == OrElse(extractLatestValue(bsData, "totalAssets"), 1)
        totalLiabilities == OrElse(extractLatestValue(bsData, "totalLiabilities"), 0)
        equity == OrElse(extractLatestValue(bsData, "equity"), 0)
        profitScore ==
            IF revenue > 0 /\ netIncome > 0 THEN Frac(60 * revenue + 400 * netIncome, revenue)
            ELSE IF revenue > 0 THEN Frac(40 * revenue + 200 * netIncome, revenue)
            ELSE Whole(40)
        equityScore ==
            IF totalAssets > 0
            THEN IF 10 * equity >= 4 * totalAssets
                 THEN Frac(75 * totalAssets + 50 * equity, totalAssets)
                 ELSE Frac(200 * equity, totalAssets)
            ELSE Whole(0)
        debtScore ==
            IF totalAssets > 0 THEN Frac(100 * (totalAssets - totalLiabilities), totalAssets)
            ELSE Whole(0)
    IN  <<Component("Profitability", Clamp(profitScore), 4),
          Component("Equity Ratio", Clamp(equityScore), 3),
          Component("Debt Level", Clamp(debtScore), 3)>>

(* synthesizeServiceability, lines 30-142.  The score is returned as       *)
(* calculateWeightedScore gives it.                                        *)
synthesizeServiceability(insights, ctx) ==
    LET relevantInsights ==
            SelectSeq(insights, LAMBDA i : i.category \in {"financial_health", "risk_exposure"})
        measured ==
            (IF ctx.cashFlow # Undef
             THEN LET cf == Val(ctx.cashFlow)
                  IN  <<Component("Cash Flow Coverage",
                           MinHundred(Frac(50 * cf.averageMonthlyInflow,
                                           cf.averageMonthlyOutflow)), 4)>>
             ELSE IF HasData(ctx, "profit_and_loss") \/ HasData(ctx, "balance_sheet")
                  THEN DocumentComponents(ctx)
                  ELSE <<>>)
            \o (IF ctx.cashFlow # Undef /\ Val(ctx.cashFlow).runwayMonths # 0
                THEN <<Component("Runway",
                          MinHundred(Whole(5 * Val(ctx.cashFlow).runwayMonths)), 3)>>
                ELSE <<>>)
        avgImpact == IF relevantInsights # <<>>
                     THEN Frac(SumImpacts(relevantInsights), Len(relevantInsights))
                     ELSE Whole(0)
        components ==
            measured
            \o (IF measured = <<>> \/ relevantInsights # <<>>
                THEN <<Component("Financial Health Signals", FracAdd(Whole(50), avgImpact),
                                 IF measured = <<>> THEN 10 ELSE 3)>>
                ELSE <<>>)
    IN  [score |-> calculateWeightedScore(components), weight |-> 30,
         components |-> components]

RECURSIVE SumSquares(_)
SumSquares(topCustomers) ==
    IF topCustomers = <<>> THEN 0
    ELSE Head(topCustomers) * Head(topCustomers) + SumSquares(Tail(topCustomers))

CountDocs(ctx, type) == Cardinality({k \in 1..Len(ctx.documents) : ctx.documents[k].type = type})

(* synthesizeConcentration, lines 188-248.                                 *)
synthesizeConcentration(insights, ctx) ==
    LET components ==
            IF ctx.stripe # Undef /\ Val(ctx.stripe).topCustomers # <<>>
            THEN LET top == Val(ctx.stripe).topCustomers
                 IN  <<Component("Top Customer Dependency", Whole(100 - top[1]), 5),
                       Component("Revenue Diversification (HHI)",
                                 Frac(10000 - SumSquares(top), 100), 5)>>
            ELSE IF CountDocs(ctx, "contract") > 0
                 THEN <<Component("Contract Diversification",
                           MinHundred(Whole(50 + 10 * CountDocs(ctx, "contract"))), 10)>>
                 ELSE <<Component("Customer Concentration (estimated)", Whole(60), 10)>>
    IN  [score |-> Clamp(calculateWeightedScore(components)), weight |-> 25,
         components |-> components]

(* insights.find(i => i.title.includes(label)) and the parse of its title: *)
(* the N of "N/100", else 50.                                              *)
TitledInsights(insights, category, label) ==
    SelectSeq(insights, LAMBDA i : i.category = category /\ i.title.label = label)
TitleScore(insight) == OrElse(insight.title.number, 50)

(* The revenue-trend fallback of synthesizeRetention, lines 282-306.       *)
RevenueTrend(ctx) ==
    IF ~HasData(ctx, "profit_and_loss") THEN <<>>
    ELSE LET years == FindDoc(ctx, "profit_and_loss").data.years
         IN  IF Len(years) < 2 THEN <<>>
             ELSE LET latest == OrElse(years[Len(years)].revenue, 0)
                      prior == OrElse(years[Len(years) - 1].revenue, 0)
                  IN  IF prior > 0
                      THEN <<Component("Revenue Trend (retention proxy)",
                                Clamp(Frac(60 * prior + 100 * (latest - prior), prior)), 10)>>
                      ELSE <<>>

(* synthesizeRetention, lines 250-328.                                     *)
synthesizeRetention(insights, ctx) ==
    LET contract == TitledInsights(insights, "contract_security", "Contract Strength")
        measured ==
            (IF contract # <<>>
             THEN <<Component("Contract Strength", Whole(TitleScore(contract[1])), 5)>>
             ELSE <<>>)
            \o (IF ctx.stripe # Undef /\ Val(ctx.stripe).churnRate # Undef
                THEN <<Component("Revenue Retention",
                          MaxZero(Whole(100 - Val(Val(ctx.stripe).churnRate))), 5)>>
                ELSE <<>>)
        trended == IF measured = <<>> THEN RevenueTrend(ctx) ELSE measured
        components ==
            IF trended = <<>>
            THEN <<Component("Revenue Retention (estimated)", Whole(65), 10)>>
            ELSE trended
    IN  [score |-> Clamp(calculateWeightedScore(components)), weight |-> 25,
         components |-> components]

FinancialDocs == {"profit_and_loss", "balance_sheet", "tax_filing", "insurance_certificate"}

(* synthesizeCompliance, lines 330-380.                                    *)
synthesizeCompliance(insights, ctx) ==
    LET compliance == TitledInsights(insights, "compliance_status", "Compliance Score")
        presentDocs == {t \in FinancialDocs : HasDocOfType(ctx, t)}
        components ==
            <<IF compliance # <<>>
              THEN Component("Regulatory Compliance", Whole(TitleScore(compliance[1])), 6)
              ELSE Component("Regulatory Compliance (estimated)", Whole(70), 6),
              Component("Documentation Completeness",
                        MinHundred(Whole(50 * Cardinality(presentDocs))), 4)>>
    IN  [score |-> Clamp(calculateWeightedScore(components)), weight |-> 20,
         components |-> components]

(* synthesizeRiskFactors, lines 18-28.                                     *)
synthesizeRiskFactors(insights, ctx) ==
    [serviceability |-> synthesizeServiceability(insights, ctx),
     concentration |-> synthesizeConcentration(insights, ctx),
     retention |-> synthesizeRetention(insights, ctx),
     compliance |-> synthesizeCompliance(insights, ctx)]


(* ========== SpecSynth: synthesizeRiskFactors called on its own ========= *)
DocContract == Doc("contract", DocData(FALSE, <<>>, NoFields))

PlainTitle == Title("other", Undef)
SynthInsightSet ==
    {SynthInsight("financial_health", PlainTitle, v) : v \in {0 - 100, 0 - 40, 40, 100}}
    \cup {SynthInsight("revenue_quality", PlainTitle, 0 - 40),
          SynthInsight("contract_security", PlainTitle, 40),
          SynthInsight("contract_security", Title("Contract Strength", Num(80)), 40),
          SynthInsight("contract_security", Title("Contract Strength", Undef), 0 - 40),
          SynthInsight("compliance_status", PlainTitle, 0 - 40),
          SynthInsight("compliance_status", Title("Compliance Score", Num(30)), 0 - 100)}

SynthInsightLists == UNION {[1..n -> SynthInsightSet] : n \in 0..MaxInsights}

SynthContexts ==
    {SynthContext(d, c, st) :
        d \in {<<>>, <<DocPLNeg>>, <<DocPLPos, DocBSNegEq>>, <<DocContract>>, <<DocEmpty>>},
        c \in {Undef, Num(CashFlow(3, 2, 6)), Num(CashFlow(1, 2, 0))},
        st \in {Undef, Num(NoStripeMetrics), Num(StripeMetrics(<<50, 30>>, Num(20))),
                Num(StripeMetrics(<<>>, Num(200)))}}

InitSynth ==
    /\ InitStore
    /\ clientCalls = 0
    /\ InitBus
    /\ InitOrch
    /\ funcArgs \in {[insights |-> i, context |-> c] :
                        i \in SynthInsightLists, c \in SynthContexts}
    /\ funcResult = NotCalled

SynthesizeRiskFactors ==
    /\ funcResult = NotCalled
    /\ funcResult' = [kind |-> "riskFactors",
                      riskFactors |-> synthesizeRiskFactors(funcArgs.insights,
                                                            funcArgs.context)]
    /\ UNCHANGED <<storeVars, clientCalls, busVars, orchVars, callVars, funcArgs>>

NextSynth == SynthesizeRiskFactors

SpecSynth == InitSynth /\ [][NextSynth]_vars

(* ====================== Properties under SpecSynth ===================== *)
InRange(x) == x.n >= 0 /\ x.n <= 100 * x.d

ClampedFactorsInRange ==
    funcResult # NotCalled =>
        \A f \in Factors \ {"serviceability"} : InRange(funcResult.riskFactors[f].score)

(* C22: each of the four factor scores synthesize returns lies in 0..100,  *)
(* for insight impacts of -40..+40 and of the legacy -100..+100, in every  *)
(* branch of the fallback chain, the one where a factor's only component   *)
(* is the insight-derived proxy included.                                  *)
C22_FactorScoresInRange ==
    funcResult # NotCalled =>
        \A f \in Factors : InRange(funcResult.riskFactors[f].score)

(* A factor without any signal: no snapshot metric, no document-derived    *)
(* metric and no insight of its categories.                                *)
NoSignal(f, insights, ctx) ==
    /\ ctx.documents = <<>>
    /\ ctx.cashFlow = Undef
    /\ ctx.stripe = Undef
    /\ \A k \in DOMAIN insights :
          insights[k].category \notin
              (CASE f = "serviceability" -> {"financial_health", "risk_exposure"}
                 [] f = "concentration" -> {"revenue_quality"}
                 [] f = "retention" -> {"contract_security"}
                 [] f = "compliance" -> {"compliance_status"})

(* One neutral component with a constant of 50..70, which is the score.    *)
NeutralFactor(factor) ==
    /\ Len(factor.components) = 1
    /\ \E c \in 50..70 :
          /\ factor.components[1].value = Whole(c)
          /\ factor.score.n = c * factor.score.d

NeutralWhereSingleFallback ==
    funcResult # NotCalled =>
        \A f \in Factors \ {"compliance"} :
            NoSignal(f, funcArgs.insights, funcArgs.context)
                => NeutralFactor(funcResult.riskFactors[f])

(* C23: synthesize always returns all four factors, and a factor without   *)
(* any signal gets exactly one neutral 'insufficient data' component whose *)
(* value is a constant of 50..70, which is then the factor's score.        *)
C23_NeutralFallback ==
    funcResult # NotCalled =>
        /\ DOMAIN funcResult.riskFactors = Factors
        /\ \A f \in Factors :
              NoSignal(f, funcArgs.insights, funcArgs.context)
                  => NeutralFactor(funcResult.riskFactors[f])


(* ============ Properties under Spec: the tasks on the bus ============== *)
(* A task is subscribed, once, exactly while its execute() is suspended in *)
(* the analysis call.                                                      *)
SubscriptionRule ==
    /\ \A a \in Agents : Count(listeners, a) = IF taskPc[a] = "llm" THEN 1 ELSE 0
    /\ orchPc \notin {"idle", "creating", "initialized", "awaiting_tasks"} =>
          listeners = <<>>

(* The broadcasts of one step: the messages the log gained.                *)
Sent == SubSeq(messageLog', Len(messageLog) + 1, Len(messageLog'))

(* A step that broadcasts hands every message, once, to each peer still in *)
(* its analysis call and to no other task.                                 *)
BroadcastStep ==
    \A a \in Agents :
        inbox'[a] = inbox[a] \o
            SelectSeq(Sent, LAMBDA msg : taskPc[a] = "llm" /\ msg.from # a)

(* C29: in one run every registered task is subscribed before any task's   *)
(* analysis call returns, every broadcast of a task is delivered exactly   *)
(* once to each peer that has not finished and never to a task that has    *)
(* finished and unsubscribed, and after the fan-in barrier no handler is   *)
(* subscribed, whichever way each task ended.                              *)
C29_SubscribedWhileAnalysing == []SubscriptionRule /\ [][BroadcastStep]_vars

C29_Witness ==
    /\ orchPc = "synthesize"
    /\ listeners = <<>>
    /\ \E a, b \in Agents :
          /\ a # b
          /\ inbox[a] = <<>>
          /\ inbox[b] # <<>>
          /\ \E i, j \in DOMAIN messageLog :
                messageLog[i].from = a /\ messageLog[j].from = b


(* ===== SpecOverlap: requests overlapping on one orchestrator and store == *)
(* The deployment without a cache client: every await inside the store, and *)
(* every await of an already settled promise, resumes in a microtask, so   *)
(* the code between two I/O completions (the analysis call of a task, the  *)
(* loading of a synthesis module, the arrival of a request) runs to its    *)
(* end before anything else does.                                          *)

(* The variables of the single run of Spec, this.state apart.              *)
runVars == <<orchPc, taskPc, taskAttempt, taskResult, taskIdx, taskOut, runInfo>>

(* persist() of this.context, which becomes ctx.                           *)
Persisted(ctx) ==
    /\ context' = ctx
    /\ written' = [written EXCEPT ![ctx.sessionId] = Content(ctx)]
    /\ StoreWrite(SetTarget(FALSE, FALSE), ctx.sessionId, Serialize(ctx))

(* The insight a task of call c returns; its id names the call.            *)
InsightOfCall(a, c, hasData) ==
    IF hasData THEN Insight(a, c, 30)
    ELSE [createInsufficientDataInsight(a) EXCEPT !.n = c]

RECURSIVE AppendedAll(_, _)
AppendedAll(ctx, insights) ==
    IF insights = <<>> THEN ctx
    ELSE AppendedAll(Mutate(ctx, "addAgentInsight",
                            [agentId |-> Head(insights).agentId, insight |-> Head(insights)]),
                     Tail(insights))

(* allInsights.flat(): what the tasks of call c returned, in registration  *)
(* order; a task that failed returned [].                                  *)
FlatOfCall(c, pcs) ==
    Flat([a \in Agents |-> IF pcs[a] = "complete" THEN <<InsightOfCall(a, c, TRUE)>>
                           ELSE <<>>], RegisteredOrder)

TasksSettled(pcs) == \A a \in Agents : pcs[a] \in {"complete", "error"}

(* analyze(companyId) up to its first I/O.  Lines 78-100: the session is   *)
(* kept or created, this.state is replaced.  Line 133 and the map          *)
(* callbacks: every task is marked running and execute() subscribes.  A    *)
(* kept session has documents, so every task starts its analysis call; a   *)
(* created one has no evidence, so every task returns the insufficient-    *)
(* data insight (finally: unsubscribe), it is appended to this.context,    *)
(* the task is marked complete, and line 137 runs.                         *)
AnalyzeCall(c) ==
    /\ calls[c].pc = "idle"
    /\ \A d \in CallIds : d < c => calls[d].pc # "idle"
    /\ LET reuse == ReusesSession(context)
           ctx == IF reuse THEN context ELSE NewContext(nextSession)
           hasData == validateDataSufficiency(ctx)
           returned == [k \in 1..Len(RegisteredOrder) |->
                           InsightOfCall(RegisteredOrder[k], c, FALSE)]
       IN  /\ reuse \/ nextSession <= MaxSessions
           /\ nextSession' = IF reuse THEN nextSession ELSE nextSession + 1
           /\ IF hasData
              THEN /\ UNCHANGED <<context, written, redisStore, inMemoryStore>>
                   /\ state' = [NewState(ctx.sessionId) EXCEPT
                                   !.status = "analyzing",
                                   !.agentStatuses = [a \in Agents |-> "running"]]
                   /\ listeners' = listeners \o RegisteredOrder
                   /\ agentUnsubscribe' = [a \in Agents |-> TRUE]
                   /\ calls' = [calls EXCEPT ![c] =
                         [@ EXCEPT !.pc = "awaiting_tasks", !.sessionId = ctx.sessionId,
                                   !.taskPc = [a \in Agents |-> "llm"]]]
              ELSE /\ Persisted(AppendedAll(ctx, returned))
                   /\ state' = [NewState(ctx.sessionId) EXCEPT
                                   !.status = "synthesizing",
                                   !.agentStatuses = [a \in Agents |-> "complete"]]
                   /\ listeners' = listeners
                   /\ agentUnsubscribe' = [a \in Agents |-> FALSE]
                   /\ calls' = [calls EXCEPT ![c] =
                         [@ EXCEPT !.pc = "synthesize", !.sessionId = ctx.sessionId,
                                   !.taskPc = [a \in Agents |-> "complete"],
                                   !.insights = returned]]
    /\ stateOwner' = c
    /\ UNCHANGED <<redis, hasSubscriber, op, clientCalls, messageLog, inbox, reqVars,
                   runVars, funcVars>>

(* The analysis call of task a of call c settles.  A conforming response:  *)
(* the insight is broadcast and returned; a failure: execute() throws.     *)
(* Either way `finally` calls this.unsubscribe of the agent object, which  *)
(* every call shares, if it holds a function.  Then lines 161-171 on       *)
(* this.context and this.state as they are now, and with the last task of  *)
(* the call lines 174-175 and 137.                                         *)
TaskSettles(c, a, ok) ==
    /\ calls[c].taskPc[a] = "llm"
    /\ LET bus == IF ok THEN BusAfterSends(Bus, Broadcasts(a, <<InsightOfCall(a, c, TRUE)>>))
                  ELSE Bus
           pcs == [calls[c].taskPc EXCEPT ![a] = IF ok THEN "complete" ELSE "error"]
           settled == TasksSettled(pcs)
       IN  /\ SetBus([bus EXCEPT !.listeners =
                         IF agentUnsubscribe[a] THEN Unsubscribed(@, a) ELSE @])
           /\ agentUnsubscribe' = [agentUnsubscribe EXCEPT ![a] = FALSE]
           /\ IF ok
              THEN Persisted(AppendedAll(context, <<InsightOfCall(a, c, TRUE)>>))
              ELSE UNCHANGED <<context, written, redisStore, inMemoryStore>>
           /\ state' = [state EXCEPT
                 !.agentStatuses[a] = IF ok THEN "complete" ELSE "error",
                 !.errors = IF ok THEN @ ELSE Append(@, ErrorOf(a, "AnalysisUnparseable")),
                 !.status = IF settled THEN "synthesizing" ELSE @]
           /\ calls' = [calls EXCEPT ![c] =
                 [@ EXCEPT !.taskPc = pcs,
                           !.pc = IF settled THEN "synthesize" ELSE @,
                           !.insights = IF settled THEN FlatOfCall(c, pcs) ELSE @]]
    /\ UNCHANGED <<redis, hasSubscriber, op, nextSession, clientCalls, runVars, funcVars,
                   stateOwner>>

(* analyze, lines 110-114, on this.state as it is now.                     *)
CaughtBy(c, error) ==
    /\ state' = [state EXCEPT !.status = "error",
                              !.errors = Append(@, ErrorOf("orchestrator", error))]
    /\ calls' = [calls EXCEPT ![c] = [@ EXCEPT !.pc = "threw", !.thrown = error]]

(* executeWorkflow from one module import to the next: lines 138-140, 143- *)
(* 144, and 147-150 with lines 106-109 of analyze.                         *)
WorkflowStage(c, throws) ==
    /\ calls[c].pc \in {"synthesize", "calculate", "roadmap"}
    /\ CASE calls[c].pc = "synthesize" ->
              IF throws
              THEN /\ CaughtBy(c, "SynthesizeError")
                   /\ UNCHANGED <<context, written, redisStore, inMemoryStore>>
              ELSE /\ Persisted(Mutate(context, "setRiskFactors",
                                       [kind |-> "synthesized",
                                        insights |-> calls[c].insights]))
                   /\ calls' = [calls EXCEPT ![c] = [@ EXCEPT !.pc = "calculate"]]
                   /\ UNCHANGED state
         [] calls[c].pc = "calculate" ->
              /\ IF throws THEN CaughtBy(c, "CalculateError")
                 ELSE /\ calls' = [calls EXCEPT ![c] = [@ EXCEPT !.pc = "roadmap"]]
                      /\ UNCHANGED state
              /\ UNCHANGED <<context, written, redisStore, inMemoryStore>>
         [] calls[c].pc = "roadmap" ->
              /\ IF throws THEN CaughtBy(c, "RoadmapError")
                 ELSE /\ calls' = [calls EXCEPT ![c] = [@ EXCEPT !.pc = "returned"]]
                      /\ state' = [state EXCEPT !.status = "complete"]
              /\ UNCHANGED <<context, written, redisStore, inMemoryStore>>
    /\ UNCHANGED <<redis, hasSubscriber, op, nextSession, clientCalls, busVars, runVars,
                   funcVars, stateOwner, agentUnsubscribe>>

(* POST /api/sessions: createSession.                                      *)
RequestCreateSession ==
    /\ clientCalls < MaxStoreRequests
    /\ nextSession <= MaxSessions
    /\ clientCalls' = clientCalls + 1
    /\ nextSession' = nextSession + 1
    /\ Persisted(NewContext(nextSession))
    /\ UNCHANGED <<redis, hasSubscriber, op, busVars, orchVars, funcVars, callVars>>

(* What loadSession(sid) leaves in this.context: the parsed session, or    *)
(* with nothing stored under sid what was there.                           *)
LoadedInto(ctx, sid) ==
    IF inMemoryStore[sid] # NoData THEN ParseSession(inMemoryStore[sid]) ELSE ctx

(* GET /api/sessions/:sessionId: loadSession.                              *)
RequestLoadSession(sid) ==
    /\ clientCalls < MaxStoreRequests
    /\ clientCalls' = clientCalls + 1
    /\ context' = LoadedInto(context, sid)
    /\ UNCHANGED <<redis, redisStore, inMemoryStore, hasSubscriber, op, nextSession,
                   written, busVars, orchVars, funcVars, callVars>>

(* POST /api/documents once the file is parsed: loadSession, addDocument.  *)
RequestAddDocument(sid) ==
    /\ clientCalls < MaxStoreRequests
    /\ LoadedInto(context, sid).sessionId # 0
    /\ Len(LoadedInto(context, sid).documents) < MaxDocs
    /\ clientCalls' = clientCalls + 1
    /\ Persisted(Mutate(LoadedInto(context, sid), "addDocument", Stringify(DocPLPos)))
    /\ UNCHANGED <<redis, hasSubscriber, op, nextSession, busVars, orchVars, funcVars,
                   callVars>>

InitOverlap ==
    /\ InitPrepared
    /\ ~redis
    /\ ~hasSubscriber
    /\ context \in {NullContext, [Session1 EXCEPT !.documents = <<DocPLNeg>>]}

AnalyzeCalls == \E c \in CallIds : AnalyzeCall(c)
TasksSettle == \E c \in CallIds, a \in Agents, ok \in BOOLEAN : TaskSettles(c, a, ok)
WorkflowStages == \E c \in CallIds, throws \in BOOLEAN : WorkflowStage(c, throws)
SessionLoads == \E sid \in SessionIds : RequestLoadSession(sid)
DocumentUploads == \E sid \in SessionIds : RequestAddDocument(sid)

NextOverlap ==
    \/ AnalyzeCalls
    \/ TasksSettle
    \/ WorkflowStages
    \/ RequestCreateSession
    \/ SessionLoads
    \/ DocumentUploads

SpecOverlap == InitOverlap /\ [][NextOverlap]_vars

(* ===================== Properties under SpecOverlap ==================== *)
(* getStatus() reports complete only once the call that created the state  *)
(* object has returned.                                                    *)
CompleteIsOwn ==
    state.status = "complete" =>
        stateOwner \in CallIds /\ calls[stateOwner].pc = "returned"

(* A step of call c that writes to the state object writes to the object   *)
(* call c created.                                                         *)
OwnStateStep ==
    \A c \in CallIds : (calls'[c] # calls[c] /\ state' # state) => stateOwner' = c

(* C25: two overlapping analyze() calls on one orchestrator do not         *)
(* interfere: the status reported for a run becomes complete only when     *)
(* that run's own workflow has finished, and each run's task statuses and  *)
(* errors are recorded in that run's own state, never in the other run's.  *)
C25_OverlappingRunsIsolated == []CompleteIsOwn /\ [][OwnStateStep]_vars

(* C26: every insight persisted during an analyze run is in the session    *)
(* whose id the orchestrator recorded for that run, also when a            *)
(* createSession or loadSession on the shared store interleaves; no        *)
(* insight of one session is written into another session's context.       *)
C26_InsightsInRecordedSession ==
    \A s \in SessionIds, a \in Agents :
        \A k \in DOMAIN written[s].agentInsights[a] :
            LET c == written[s].agentInsights[a][k].n
            IN  c \in CallIds => calls[c].sessionId = s

=============================================================================
